---- MODULE Spec2Model ----
(***************************************************************************)
(* Segment-oriented transaction parsing of the Recoverable-Revenue         *)
(* repository: the EDI 271 hierarchical walker (realtime_eligibility.py),  *)
(* the 835 denial loader (denials_db_loader.py, run_denials_rcm.py), the   *)
(* patient deduplicator (etl_engine.py) and the EOB to 835 converter       *)
(* (eob_to_835.py).                                                         *)
(*                                                                         *)
(* Conventions.  A tokenized segment is a sequence of element strings; a   *)
(* Python index n is the TLA+ index n + 1.  Money is held in integer       *)
(* cents.  A Python dict whose insertion order matters is a sequence of    *)
(* <<key, value>> pairs.  None is the empty sequence, an object that may   *)
(* be None is a sequence of zero or one record.                            *)
(***************************************************************************)
EXTENDS Integers, Sequences, FiniteSets, TLC

VARIABLES
    \* EDI271Parser._walk_segments
    filepath, segments, i, patients, current_payer, current_provider,
    current_patient, context, pc271, fin, clock,
    \* parse_835_file
    segs835, k835, current, payer, results, pc835,
    \* deduplicate_patients
    patient_records, dd_input, dd_idx, seen, deduplicated, duplicate_count,
    duplicate_details, pcDedup,
    \* ingest_835_directory and the Claims_Denials table
    edi_files, file_idx, db_pending, db_committed, pcIngest,
    \* process_practice_type of eob_to_835.py, and the loader reading back
    \* the files it wrote
    eob_files, eob_idx, edi_out, total_paid_dollars, total_denied_dollars,
    is_denied, total_by_practice, conversion_logs, carc_mapping_usage,
    reparsed, pcConv,
    \* run_etl of etl_engine.py
    file_map, etl_idx, practice_data, stats, pt_idx, pcEtl,
    \* EDI271Parser.parse_file called again and again on one parser object
    calls, call_idx, returns,
    \* the X12 tokenizers: _tokenize and the split of parse_835_file
    tok_bodies, tok_sep, raw_text, tokens271, tokens835,
    \* extract_messages_from_file of etl_engine.py
    hl7_lines, hl7_sep, hl7_readable, content, messages, hl7_error, pcHl7,
    \* parse_hl7_message over the messages of a file
    hl7_msgs, msg_idx, seg_pos, current_obr, hl7_result, hl7_parsed, pcMsg

walkVars == <<filepath, segments, i, patients, current_payer, current_provider,
              current_patient, context, pc271, fin, clock>>
parseVars == <<segs835, k835, current, payer, results, pc835>>
dedupVars == <<patient_records, dd_input, dd_idx, seen, deduplicated,
               duplicate_count, duplicate_details, pcDedup>>
ingestVars == <<edi_files, file_idx, db_pending, db_committed, pcIngest>>
convVars == <<eob_files, eob_idx, edi_out, total_paid_dollars,
              total_denied_dollars, is_denied, total_by_practice,
              conversion_logs, carc_mapping_usage, reparsed, pcConv>>
etlVars == <<file_map, etl_idx, practice_data, stats, pt_idx, pcEtl>>
fileVars == <<calls, call_idx, returns>>
tokVars == <<tok_bodies, tok_sep, raw_text, tokens271, tokens835>>
hl7Vars == <<hl7_lines, hl7_sep, hl7_readable, content, messages, hl7_error,
             pcHl7>>
msgVars == <<hl7_msgs, msg_idx, seg_pos, current_obr, hl7_result,
             hl7_parsed, pcMsg>>
vars == <<walkVars, parseVars, dedupVars, ingestVars, convVars, etlVars,
          fileVars, tokVars, hl7Vars, msgVars>>

\* what each component leaves alone
notWalk == <<parseVars, dedupVars, ingestVars, convVars, etlVars, fileVars,
             tokVars, hl7Vars, msgVars>>
notParse == <<walkVars, dedupVars, ingestVars, convVars, etlVars, fileVars,
              tokVars, hl7Vars, msgVars>>
notDedup == <<walkVars, parseVars, ingestVars, convVars, etlVars, fileVars,
              tokVars, hl7Vars, msgVars>>
notIngest == <<walkVars, parseVars, dedupVars, convVars, etlVars, fileVars,
               tokVars, hl7Vars, msgVars>>
notConv == <<walkVars, parseVars, dedupVars, ingestVars, etlVars, fileVars,
             tokVars, hl7Vars, msgVars>>
notEtl == <<walkVars, parseVars, dedupVars, ingestVars, convVars, fileVars,
            tokVars, hl7Vars, msgVars>>
notFile == <<walkVars, parseVars, dedupVars, ingestVars, convVars, etlVars,
             tokVars, hl7Vars, msgVars>>
notWalkOrFile == <<parseVars, dedupVars, ingestVars, convVars, etlVars,
                   tokVars, hl7Vars, msgVars>>
notTok == <<walkVars, parseVars, dedupVars, ingestVars, convVars, etlVars,
            fileVars, hl7Vars, msgVars>>
notHl7 == <<walkVars, parseVars, dedupVars, ingestVars, convVars, etlVars,
            fileVars, tokVars, msgVars>>
notMsg == <<walkVars, parseVars, dedupVars, ingestVars, convVars, etlVars,
            fileVars, tokVars, hl7Vars>>

----------------------------------------------------------------------------
(* Bounds of the model *)

MaxSegs == 3
MaxPatients == 3
MaxFiles == 3
MaxEobs == 2
MaxEtlFiles == 3
MaxCallSegs == 2
MaxBodies == 3
MaxLines == 3
MaxLoopSegs == 4
MaxMsgSegs == 3

----------------------------------------------------------------------------
(* Generic helpers *)

SeqsUpTo(S, n) == UNION {[1..m -> S] : m \in 0..n}

RECURSIVE SeqSum(_)
SeqSum(s) == IF s = <<>> THEN 0 ELSE Head(s) + SeqSum(Tail(s))

\* str.strip() on the element strings the model draws from
Strip(s) ==
    CASE s = " 22 " -> "22"
      [] s = " "    -> ""
      [] s = " JOHN" -> "JOHN"
      [] OTHER      -> s

\* float(s): the numeric strings of the model, in cents; any other string
\* makes float() raise ValueError
NumericStrings ==
    {"0", "0.00", "20", "40", "25.00", "50.00", "75.00", "100.00", "0.50"}

FloatCents(s) ==
    CASE s = "0"      -> 0
      [] s = "0.00"   -> 0
      [] s = "0.50"   -> 50
      [] s = "20"     -> 2000
      [] s = "40"     -> 4000
      [] s = "25.00"  -> 2500
      [] s = "50.00"  -> 5000
      [] s = "75.00"  -> 7500
      [] s = "100.00" -> 10000

FloatRaises(s) == s \notin NumericStrings

\* datetime.strptime(s, "%Y%m%d"): the instant (midnight) of the date, on a
\* scale of half days; any other string raises ValueError
DateStrings == {"20200101", "20240615", "20991231"}

StrptimeInstant(s) ==
    CASE s = "20200101" -> 2
      [] s = "20240615" -> 4
      [] s = "20991231" -> 6

\* values datetime.now() returns during a run (half days, non-decreasing)
ClockValues == {3, 4, 5}

\* an insertion-ordered dict as a sequence of <<key, value>> pairs
DictHas(d, k) == \E n \in 1..Len(d) : d[n][1] = k

DictGet(d, k) == d[CHOOSE n \in 1..Len(d) : d[n][1] = k][2]

DictSet(d, k, v) ==
    IF DictHas(d, k)
    THEN [n \in 1..Len(d) |-> IF d[n][1] = k THEN <<k, v>> ELSE d[n]]
    ELSE Append(d, <<k, v>>)

----------------------------------------------------------------------------
(* realtime_eligibility.py: code tables (the entries the model's codes use; *)
(* dict.get(code, code) passes every other code through)                    *)

COVERAGE_LEVEL_MAP(c) ==
    CASE c = "IND" -> "Individual"
      [] c = "FAM" -> "Family"
      [] OTHER     -> c

SERVICE_TYPE_CODES(c) ==
    CASE c = "30" -> "Health Benefit Plan Coverage"
      [] c = "96" -> "Professional (Physician) Visit - Office"
      [] c = "UC" -> "Urgent Care"
      [] OTHER    -> c

TIME_PERIOD_MAP(c) ==
    CASE c = "23" -> "Calendar Year"
      [] c = "29" -> "Remaining"
      [] c = "32" -> "Lifetime"
      [] OTHER    -> c

ELIGIBILITY_BENEFIT_CODES(c) ==
    CASE c = "1" -> "Active"
      [] c = "6" -> "Inactive"
      [] c = "A" -> "Co-Insurance"
      [] c = "B" -> "Co-Payment"
      [] c = "C" -> "Deductible"
      [] OTHER   -> c

RELATIONSHIP_MAP(c) ==
    CASE c = "18" -> "Self"
      [] c = "01" -> "Spouse"
      [] OTHER    -> c

INSURANCE_TYPE_MAP(c) ==
    CASE c = "PP" -> "Preferred Provider Organization (PPO)"
      [] c = "HM" -> "Health Maintenance Organization (HMO)"
      [] c = "AP" -> "Auto Insurance Policy"
      [] OTHER    -> c

\* PLAN_TYPE_SHORT.get(c, INSURANCE_TYPE_MAP.get(c, c))
PLAN_TYPE_SHORT(c) ==
    CASE c = "PP" -> "PPO"
      [] c = "HM" -> "HMO"
      [] OTHER    -> INSURANCE_TYPE_MAP(c)

----------------------------------------------------------------------------
(* realtime_eligibility.py: EDI271Parser *)

\* _elem that reads the last element when the segment is too short
_elem_last(seg, idx) ==
    IF idx < Len(seg) THEN Strip(seg[idx + 1]) ELSE Strip(seg[Len(seg)])

\* _elem(seg, idx): the stripped element, "" when the segment is too short
_elem(seg, idx) == IF idx < Len(seg) THEN Strip(seg[idx + 1]) ELSE ""

\* f"{first} {last}".strip(), kept as the pair it is built from
JoinName(first, last) == <<first, last>>

EmptyPayer == [name |-> "", payer_id |-> ""]

\* current_provider = {}: every field at the default its .get() falls back to
EmptyProvider ==
    [name |-> JoinName("", ""), npi |-> "", network_status |-> "Unknown",
     participating |-> "Unknown", taxonomy |-> ""]

\* os.path.basename on the paths of the model
Basename(path) ==
    CASE path = "in/elig_a.edi"   -> "elig_a.edi"
      [] path = "copy/elig_a.edi" -> "elig_a.edi"
      [] path = "in/elig_b.edi"   -> "elig_b.edi"
      [] OTHER                    -> path

\* the path the walker specifications parse
DefaultPath == "in/elig_a.edi"

_new_patient_record(path) ==
    [source_file |-> Basename(path),
     patient_name |-> JoinName("", ""), patient_first |-> "", patient_last |-> "",
     member_id |-> "", dob |-> "", gender |-> "", address |-> "", city |-> "",
     state |-> "", zip |-> "", relationship |-> "",
     coverage_status |-> "Unknown", plan_type |-> "", plan_type_code |-> "",
     payer_name |-> "", payer_id |-> "", group_number |-> "", group_name |-> "",
     effective_date |-> "", term_date |-> "",
     provider_npi |-> "", provider_name |-> JoinName("", ""),
     provider_taxonomy |-> "",
     network_status |-> "Unknown", participating |-> "Unknown",
     trace_number |-> "",
     deductible |-> 0, deductible_remaining |-> 0,
     family_deductible |-> 0, family_deductible_remaining |-> 0,
     copay |-> 0, copays |-> <<>>, copays_oon |-> <<>>,
     coinsurance_pct |-> 0, coinsurance_pct_oon |-> 0,
     coinsurance_in |-> <<>>, coinsurance_oon |-> <<>>,
     oop_max |-> 0, oop_remaining |-> 0, lifetime_max |-> 0,
     services |-> <<>>, preauth_services |-> <<>>,
     preauth_messages |-> <<>>, messages |-> <<>>,
     formatted |-> {}]

\* len(val) == 8 on the date strings of the model
LenIs8(s) == s \in DateStrings \cup {"19800101", "2024ABCD"}

copay_key(svc_label) == <<"copay", svc_label>>

\* the coverage block with an inactive code overriding an earlier active one
EbCoverageLastWins(patient, eb01, eb05) ==
    IF eb01 \in {"1", "2", "3", "4", "5"}
    THEN LET p == [patient EXCEPT !.coverage_status = "Active"]
         IN  IF eb05 # ""
             THEN [p EXCEPT !.plan_type_code = eb05,
                            !.plan_type = PLAN_TYPE_SHORT(eb05)]
             ELSE p
    ELSE IF eb01 \in {"6", "7", "8"}
    THEN [patient EXCEPT !.coverage_status = "Inactive"]
    ELSE patient

\* the coverage block with the first active or inactive code deciding
EbCoverageFirstWins(patient, eb01, eb05) ==
    IF patient.coverage_status # "Unknown" THEN patient
    ELSE EbCoverageLastWins(patient, eb01, eb05)

\* the "Track coverage status" block of _parse_eb_segment
EbCoverage(patient, eb01, eb05) ==
    IF eb01 \in {"1", "2", "3", "4", "5"}
    THEN LET p == [patient EXCEPT !.coverage_status = "Active"]
         IN  IF eb05 # ""
             THEN [p EXCEPT !.plan_type_code = eb05,
                            !.plan_type = PLAN_TYPE_SHORT(eb05)]
             ELSE p
    ELSE IF eb01 \in {"6", "7", "8"}
    THEN IF patient.coverage_status # "Active"
         THEN [patient EXCEPT !.coverage_status = "Inactive"]
         ELSE patient
    ELSE patient

\* the benefit branches (C deductible, B copay, A coinsurance, G out of
\* pocket, F limitations, J pre-authorisation) of _parse_eb_segment
EbBenefit(patient, eb01, eb02, eb03, eb06, eb07, amount, oon, coverage_level) ==
    CASE eb01 = "C" ->
           IF eb02 = "IND"
           THEN IF eb06 = "29"
                THEN [patient EXCEPT !.deductible_remaining = amount]
                ELSE IF eb06 \in {"23", "24", "25"}
                THEN [patient EXCEPT !.deductible = amount]
                ELSE patient
           ELSE IF eb02 = "FAM"
           THEN IF eb06 = "29"
                THEN [patient EXCEPT !.family_deductible_remaining = amount]
                ELSE IF eb06 \in {"23", "24", "25"}
                THEN [patient EXCEPT !.family_deductible = amount]
                ELSE patient
           ELSE patient
      [] eb01 = "B" ->
           IF amount > 0
           THEN LET svc_label == IF eb03 # "" THEN eb03 ELSE "general"
                    key == copay_key(svc_label)
                IN  IF ~oon
                    THEN LET p == [patient EXCEPT
                                     !.copays = DictSet(@, key, amount)]
                         IN  IF svc_label \in {"96", "UC", "general"}
                             THEN [p EXCEPT !.copay = amount]
                             ELSE p
                    ELSE [patient EXCEPT
                            !.copays_oon = DictSet(@, key, amount)]
           ELSE patient
      [] eb01 = "A" ->
           LET pct == IF eb07 # "" /\ ~FloatRaises(eb07)
                      THEN FloatCents(eb07) \div 100 ELSE 0
               svc == IF eb03 # "" THEN eb03 ELSE "general"
           IN  IF pct > 0
               THEN IF oon
                    THEN LET p == [patient EXCEPT
                                     !.coinsurance_oon = DictSet(@, svc, pct)]
                         IN  IF p.coinsurance_pct_oon = 0
                             THEN [p EXCEPT !.coinsurance_pct_oon = pct]
                             ELSE p
                    ELSE LET p == [patient EXCEPT
                                     !.coinsurance_in = DictSet(@, svc, pct)]
                         IN  IF p.coinsurance_pct = 0
                             THEN [p EXCEPT !.coinsurance_pct = pct]
                             ELSE p
               ELSE patient
      [] eb01 = "G" ->
           IF eb02 = "IND"
           THEN IF eb06 = "29"
                THEN [patient EXCEPT !.oop_remaining = amount]
                ELSE IF eb06 \in {"23", "24", "25"}
                THEN [patient EXCEPT !.oop_max = amount]
                ELSE patient
           ELSE patient
      [] eb01 = "F" ->
           IF eb06 = "32"
           THEN [patient EXCEPT !.lifetime_max = amount]
           ELSE patient
      [] eb01 = "J" ->
           [patient EXCEPT !.preauth_services = Append(@,
               [service_type_code |-> eb03,
                service_type |-> IF eb03 # "" THEN SERVICE_TYPE_CODES(eb03)
                                 ELSE "General",
                coverage_level |-> coverage_level])]
      [] OTHER -> patient

\* float(eb07) guarded by try/except (ValueError, TypeError): 0.0 on failure
EbAmount(eb07) ==
    IF eb07 # "" /\ ~FloatRaises(eb07) THEN FloatCents(eb07) ELSE 0

_parse_eb_segment(seg, patient) ==
    LET eb01 == _elem(seg, 1)
        eb02 == _elem(seg, 2)
        eb03 == _elem(seg, 3)
        eb05 == _elem(seg, 5)
        eb06 == _elem(seg, 6)
        eb07 == _elem(seg, 7)
        eb12 == IF Len(seg) > 11 THEN _elem(seg, 11) ELSE ""
        coverage_level == COVERAGE_LEVEL_MAP(eb02)
        service_type == IF eb03 # "" THEN SERVICE_TYPE_CODES(eb03) ELSE "General"
        time_period == TIME_PERIOD_MAP(eb06)
        is_out_of_network == (eb12 = "N")
        benefit_type == ELIGIBILITY_BENEFIT_CODES(eb01)
        amount == EbAmount(eb07)
        p1 == EbCoverage(patient, eb01, eb05)
        p2 == EbBenefit(p1, eb01, eb02, eb03, eb06, eb07, amount,
                        is_out_of_network, coverage_level)
    IN  IF eb03 # "" /\ eb01 # "J"
        THEN [p2 EXCEPT !.services = Append(@,
                 [service_type_code |-> eb03,
                  service_type |-> service_type,
                  benefit_type |-> benefit_type,
                  coverage_level |-> coverage_level,
                  amount |-> amount,
                  time_period |-> time_period,
                  in_network |-> ~is_out_of_network])]
        ELSE p2

\* the coverage part of _finalize_patient: a parseable termination date
\* earlier than now turns Unknown or Inactive into Terminated
FinalizeCoverage(patient, now) ==
    IF patient.term_date # "" /\ patient.term_date \in DateStrings
       /\ StrptimeInstant(patient.term_date) < now
       /\ patient.coverage_status \in {"Unknown", "Inactive"}
    THEN [patient EXCEPT !.coverage_status = "Terminated"]
    ELSE patient

\* the default copay of _finalize_patient
FinalizeCopay(patient) ==
    IF patient.copay = 0 /\ patient.copays # <<>>
    THEN LET d == patient.copays
             pick == IF DictHas(d, copay_key("96")) THEN DictGet(d, copay_key("96"))
                     ELSE IF DictHas(d, copay_key("UC")) THEN DictGet(d, copay_key("UC"))
                     ELSE IF DictHas(d, copay_key("30")) THEN DictGet(d, copay_key("30"))
                     ELSE 0
         IN  [patient EXCEPT !.copay = IF pick = 0 THEN d[1][2] ELSE pick]
    ELSE patient

\* the display dates of _finalize_patient: which <field>_formatted keys exist
FinalizeDates(patient) ==
    [patient EXCEPT !.formatted =
        {f \in {"dob", "effective_date", "term_date"} :
            LET val == IF f = "dob" THEN patient.dob
                       ELSE IF f = "effective_date" THEN patient.effective_date
                       ELSE patient.term_date
            IN  val # "" /\ LenIs8(val)}]

_finalize_patient(patient, now) ==
    FinalizeDates(FinalizeCopay(FinalizeCoverage(patient, now)))

\* the walker's locals as one value
WalkState ==
    [filepath |-> filepath, patients |-> patients, current_payer |-> current_payer,
     current_provider |-> current_provider,
     current_patient |-> current_patient, context |-> context]

\* the fresh record of a level-22 HL, with the payer and provider of the
\* loops it is opened under
InheritedRecord(w) ==
    [_new_patient_record(w.filepath) EXCEPT
       !.payer_name = w.current_payer.name,
       !.payer_id = w.current_payer.payer_id,
       !.provider_npi = w.current_provider.npi,
       !.provider_name = w.current_provider.name,
       !.network_status = w.current_provider.network_status,
       !.participating = w.current_provider.participating,
       !.provider_taxonomy = w.current_provider.taxonomy]

\* a level-22 HL that forgets the open subscriber instead of flushing it
OpenSubscriberNoFlush(w) ==
    [w EXCEPT !.context = "subscriber",
              !.current_patient = << InheritedRecord(w) >>]

\* elif hl_level == "22": flush the open subscriber, allocate the next one
OpenSubscriber(w) ==
    [w EXCEPT
       !.patients = IF w.current_patient # <<>>
                    THEN Append(@, w.current_patient[1]) ELSE @,
       !.context = "subscriber",
       !.current_patient = << InheritedRecord(w) >>]

\* elif seg_id == "HL": level 20 opens a payer loop, 21 a provider loop, 22
\* a subscriber loop; any other level code changes nothing
WalkHL(w, seg) ==
    LET hl_level == _elem(seg, 3)
    IN  CASE hl_level = "20" ->
               [w EXCEPT !.context = "payer", !.current_payer = EmptyPayer]
          [] hl_level = "21" ->
               [w EXCEPT !.context = "provider",
                         !.current_provider = EmptyProvider]
          [] hl_level = "22" -> OpenSubscriber(w)
          [] OTHER -> w

\* elif seg_id == "NM1"
WalkNM1(w, seg) ==
    LET entity_code == _elem(seg, 1)
    IN  IF w.context = "payer" /\ entity_code = "PR"
        THEN [w EXCEPT !.current_payer.name = _elem(seg, 3),
                       !.current_payer.payer_id = _elem(seg, 9)]
        ELSE IF w.context = "provider" /\ entity_code = "1P"
        THEN [w EXCEPT
                !.current_provider.name = JoinName(_elem(seg, 4), _elem(seg, 3)),
                !.current_provider.npi = _elem(seg, 9)]
        ELSE IF w.context = "subscriber" /\ entity_code = "IL"
                /\ w.current_patient # <<>>
        THEN [w EXCEPT
                !.current_patient[1].patient_last = _elem(seg, 3),
                !.current_patient[1].patient_first = _elem(seg, 4),
                !.current_patient[1].patient_name =
                    JoinName(_elem(seg, 4), _elem(seg, 3)),
                !.current_patient[1].member_id = _elem(seg, 9)]
        ELSE w

\* elif seg_id == "REF" and current_patient
WalkREF(w, seg) ==
    LET ref_qual == _elem(seg, 1)
        ref_val == _elem(seg, 2)
    IN  IF w.context = "provider"
        THEN IF ref_qual = "EO"
             THEN [w EXCEPT !.current_provider.network_status =
                      IF ref_val = "IN" THEN "In-Network" ELSE "Out-of-Network"]
             ELSE IF ref_qual = "9K"
             THEN [w EXCEPT !.current_provider.participating =
                      IF ref_val = "Y" THEN "Yes" ELSE "No"]
             ELSE w
        ELSE IF w.context = "subscriber"
        THEN IF ref_qual = "18"
             THEN [w EXCEPT !.current_patient[1].group_number = ref_val]
             ELSE IF ref_qual = "1L"
             THEN [w EXCEPT !.current_patient[1].group_name = ref_val]
             ELSE IF ref_qual = "6P"
             THEN [w EXCEPT !.current_patient[1].plan_type_code = ref_val,
                            !.current_patient[1].plan_type =
                                PLAN_TYPE_SHORT(ref_val)]
             ELSE w
        ELSE w

\* elif seg_id == "DTP" and context == "subscriber" and current_patient
WalkDTP(w, seg) ==
    LET qualifier == _elem(seg, 1)
        date_val == _elem(seg, 3)
    IN  IF qualifier = "356"
        THEN [w EXCEPT !.current_patient[1].effective_date = date_val]
        ELSE IF qualifier = "357"
        THEN [w EXCEPT !.current_patient[1].term_date = date_val]
        ELSE w

\* "PRE-AUTHORIZATION" in msg_text.upper() or "PREAUTH" in msg_text.upper()
MentionsPreauth(msg_text) ==
    msg_text \in {"Pre-authorization required", "PREAUTH NEEDED"}

\* elif seg_id == "MSG" and current_patient
WalkMSG(w, seg) ==
    LET msg_text == _elem(seg, 1)
    IN  IF msg_text # ""
        THEN LET w1 == [w EXCEPT !.current_patient[1].messages =
                                     Append(@, msg_text)]
             IN  IF MentionsPreauth(msg_text)
                 THEN [w1 EXCEPT !.current_patient[1].preauth_messages =
                                     Append(@, msg_text)]
                 ELSE w1
        ELSE w

\* a segment that closes the open subscriber record without flushing it
WalkPassClosesRecord(w) == [w EXCEPT !.current_patient = <<>>]

\* the branches whose body is "pass" (ISA, GS, ST, BHT, SE, GE, IEA) and the
\* fall-through of the if/elif chain when no branch takes the segment
WalkPass(w) == w

\* one iteration of the while loop of _walk_segments: the if/elif chain on
\* seg_id; a segment no branch takes leaves the walker as it is
walk_segment(w, seg) ==
    LET seg_id == IF seg # <<>> THEN seg[1] ELSE ""
        sub == w.context = "subscriber" /\ w.current_patient # <<>>
    IN  CASE seg_id \in {"ISA", "GS", "ST", "BHT"} -> WalkPass(w)
          [] seg_id = "HL" -> WalkHL(w, seg)
          [] seg_id = "NM1" -> WalkNM1(w, seg)
          [] seg_id = "DMG" /\ sub ->
               [w EXCEPT !.current_patient[1].dob = _elem(seg, 2),
                         !.current_patient[1].gender = _elem(seg, 3)]
          [] seg_id = "N3" /\ sub ->
               [w EXCEPT !.current_patient[1].address = _elem(seg, 1)]
          [] seg_id = "N4" /\ sub ->
               [w EXCEPT !.current_patient[1].city = _elem(seg, 1),
                         !.current_patient[1].state = _elem(seg, 2),
                         !.current_patient[1].zip = _elem(seg, 3)]
          [] seg_id = "INS" /\ sub ->
               [w EXCEPT !.current_patient[1].relationship =
                             RELATIONSHIP_MAP(_elem(seg, 2))]
          [] seg_id = "TRN" /\ sub ->
               [w EXCEPT !.current_patient[1].trace_number = _elem(seg, 2)]
          [] seg_id = "DTP" /\ sub -> WalkDTP(w, seg)
          [] seg_id = "REF" /\ w.current_patient # <<>> -> WalkREF(w, seg)
          [] seg_id = "PRV" /\ w.context = "provider" ->
               [w EXCEPT !.current_provider.taxonomy = _elem(seg, 3)]
          [] seg_id = "EB" /\ w.current_patient # <<>> ->
               [w EXCEPT !.current_patient[1] = _parse_eb_segment(seg, @)]
          [] seg_id = "MSG" /\ w.current_patient # <<>> -> WalkMSG(w, seg)
          [] seg_id \in {"SE", "GE", "IEA"} -> WalkPass(w)
          [] OTHER -> WalkPass(w)

\* the walker before the first segment
InitWalk(inputs) ==
    /\ filepath = DefaultPath
    /\ segments \in inputs
    /\ i = 0
    /\ patients = <<>>
    /\ current_payer = EmptyPayer
    /\ current_provider = EmptyProvider
    /\ current_patient = <<>>
    /\ context = "envelope"
    /\ pc271 = "walk"
    /\ fin = 0
    /\ clock = 0

IdleWalk ==
    /\ filepath = ""
    /\ segments = <<>>
    /\ i = 0
    /\ patients = <<>>
    /\ current_payer = EmptyPayer
    /\ current_provider = EmptyProvider
    /\ current_patient = <<>>
    /\ context = "envelope"
    /\ pc271 = "idle"
    /\ fin = 0
    /\ clock = 0

\* while i < len(segments): ... i += 1
WalkSegment ==
    /\ pc271 = "walk"
    /\ i < Len(segments)
    /\ LET w == walk_segment(WalkState, segments[i + 1])
       IN  /\ patients' = w.patients
           /\ current_payer' = w.current_payer
           /\ current_provider' = w.current_provider
           /\ current_patient' = w.current_patient
           /\ context' = w.context
    /\ i' = i + 1
    /\ UNCHANGED <<filepath, segments, pc271, fin, clock, notWalk>>

\* end of input: "Flush last patient"
FlushLast(ps, cp) == IF cp # <<>> THEN Append(ps, cp[1]) ELSE ps

WalkFlush ==
    /\ pc271 = "walk"
    /\ i >= Len(segments)
    /\ patients' = FlushLast(patients, current_patient)
    /\ pc271' = "finalize"
    /\ UNCHANGED <<filepath, segments, i, current_payer, current_provider,
                   current_patient, context, fin, clock, notWalk>>

\* for pat in patients: self._finalize_patient(pat), each call reading
\* datetime.now()
WalkFinalize ==
    /\ pc271 = "finalize"
    /\ fin < Len(patients)
    /\ \E now \in ClockValues :
          /\ now >= clock
          /\ clock' = now
          /\ patients' = [patients EXCEPT ![fin + 1] = _finalize_patient(@, now)]
    /\ fin' = fin + 1
    /\ UNCHANGED <<filepath, segments, i, current_payer, current_provider,
                   current_patient, context, pc271, notWalk>>

\* return patients
WalkReturn ==
    /\ pc271 = "finalize"
    /\ fin >= Len(patients)
    /\ pc271' = "done"
    /\ UNCHANGED <<filepath, segments, i, patients, current_payer,
                   current_provider,
                   current_patient, context, fin, clock, notWalk>>

NextWalk == WalkSegment \/ WalkFlush \/ WalkFinalize \/ WalkReturn

----------------------------------------------------------------------------
(* denials_db_loader.py: parse_835_file *)

\* parts[1].startswith("HC:") and parts[1].split(":")[1] on the composite
\* elements of the model
StartsWithHC(e) == e \in {"HC:99213", "HC:99214", "HC:"}

CptOf(e) ==
    CASE e = "HC:99213" -> "99213"
      [] e = "HC:99214" -> "99214"
      [] OTHER          -> ""

\* the locals of parse_835_file as one value; raised: an exception left the
\* function (nothing is returned to the caller)
ParseState ==
    [current |-> current, payer |-> payer, results |-> results, raised |-> FALSE]

\* float(parts[3]) if len(parts) > 3 and parts[3] else 0.0, in cents;
\* float() raises ValueError on a non-numeric string
ClpAmount(parts) ==
    IF Len(parts) > 3 /\ parts[4] # ""
    THEN IF FloatRaises(parts[4])
         THEN [raised |-> TRUE, value |-> 0]
         ELSE [raised |-> FALSE, value |-> FloatCents(parts[4])]
    ELSE [raised |-> FALSE, value |-> 0]

\* elif tag == "CLP": flush the previous claim, open the next
ParseCLP(st, parts, practice_type) ==
    LET amt == ClpAmount(parts)
        flushed == IF st.current # <<>>
                   THEN Append(st.results, st.current[1]) ELSE st.results
    IN  IF amt.raised
        THEN [st EXCEPT !.results = flushed, !.raised = TRUE]
        ELSE [st EXCEPT
                !.results = flushed,
                !.current =
                   << [Claim_ID |-> IF Len(parts) > 1 THEN parts[2] ELSE "",
                       Status |-> IF Len(parts) > 2 THEN parts[3] ELSE "",
                       Balance_Amount |-> amt.value,
                       Payer_ID |-> st.payer,
                       CPT_Code |-> "",
                       CARC_Code |-> "",
                       RARC_Code |-> "",
                       Denial_Date |-> "",
                       Practice_Type |-> practice_type] >>]

\* elif tag == "CAS" and current: the first code is kept as CARC, the second
\* as RARC, any further one is dropped
ParseCAS(st, parts) ==
    IF Len(parts) >= 3
    THEN LET code == parts[3]
         IN  IF st.current[1].CARC_Code = ""
             THEN [st EXCEPT !.current[1].CARC_Code = code]
             ELSE IF st.current[1].RARC_Code = ""
             THEN [st EXCEPT !.current[1].RARC_Code = code]
             ELSE st
    ELSE st

\* one iteration of "for seg in segments" of parse_835_file
parse_835_segment(st, parts, practice_type) ==
    LET tag == IF parts # <<>> THEN parts[1] ELSE ""
    IN  IF tag = "" THEN st
        ELSE IF tag = "N1" /\ Len(parts) > 2 /\ parts[2] = "PR"
        THEN [st EXCEPT !.payer = parts[3]]
        ELSE IF tag = "CLP"
        THEN ParseCLP(st, parts, practice_type)
        ELSE IF tag = "CAS" /\ st.current # <<>>
        THEN ParseCAS(st, parts)
        ELSE IF tag = "SVC" /\ st.current # <<>>
        THEN IF Len(parts) > 1 /\ StartsWithHC(parts[2])
                /\ st.current[1].CPT_Code = ""
             THEN [st EXCEPT !.current[1].CPT_Code = CptOf(parts[2])]
             ELSE st
        ELSE IF tag = "DTM" /\ st.current # <<>>
        THEN IF Len(parts) >= 3 /\ parts[2] \in {"232", "233"}
             THEN [st EXCEPT !.current[1].Denial_Date = parts[3]]
             ELSE st
        ELSE st

\* if current: results.append(current)
FlushCurrent(rs, cur) == IF cur # <<>> THEN Append(rs, cur[1]) ELSE rs

\* parse_835_file as a function of the segment list: what it returns, or
\* that it raised
RECURSIVE Parse835From(_, _, _, _)
Parse835From(st, segs, k, practice_type) ==
    IF st.raised THEN [raised |-> TRUE, results |-> <<>>]
    ELSE IF k > Len(segs)
    THEN [raised |-> FALSE, results |-> FlushCurrent(st.results, st.current)]
    ELSE Parse835From(parse_835_segment(st, segs[k], practice_type),
                      segs, k + 1, practice_type)

parse_835_file(segs, practice_type) ==
    Parse835From([current |-> <<>>, payer |-> "", results |-> <<>>,
                  raised |-> FALSE], segs, 1, practice_type)

\* the practice type the stepwise parse runs with
PracticeType == "cardiology"

InitParse(inputs) ==
    /\ segs835 \in inputs
    /\ k835 = 0
    /\ current = <<>>
    /\ payer = ""
    /\ results = <<>>
    /\ pc835 = "loop"

IdleParse ==
    /\ segs835 = <<>>
    /\ k835 = 0
    /\ current = <<>>
    /\ payer = ""
    /\ results = <<>>
    /\ pc835 = "idle"

\* for seg in segments: ...
ParseSegment ==
    /\ pc835 = "loop"
    /\ k835 < Len(segs835)
    /\ LET st == parse_835_segment(ParseState, segs835[k835 + 1], PracticeType)
       IN  /\ current' = st.current
           /\ payer' = st.payer
           /\ results' = st.results
           /\ pc835' = IF st.raised THEN "raised" ELSE "loop"
    /\ k835' = k835 + 1
    /\ UNCHANGED <<segs835, notParse>>

\* if current: results.append(current); return results
ParseReturn ==
    /\ pc835 = "loop"
    /\ k835 >= Len(segs835)
    /\ results' = FlushCurrent(results, current)
    /\ pc835' = "returned"
    /\ UNCHANGED <<segs835, k835, current, payer, notParse>>

NextParse == ParseSegment \/ ParseReturn

----------------------------------------------------------------------------
(* etl_engine.py: build_dedup_key, deduplicate_patients *)

\* s.strip().upper() and s.strip() on the name and date strings of the model
StripUpper(s) ==
    CASE s = " doe " -> "DOE"
      [] s = "John"  -> "JOHN"
      [] s = " "     -> ""
      [] OTHER       -> s

StripOnly(s) ==
    CASE s = " doe " -> "doe"
      [] s = " "     -> ""
      [] OTHER       -> s

\* f"{last}|{first}|{dob}", kept as the triple it is built from
build_dedup_key(patient) ==
    <<StripUpper(patient.last_name), StripUpper(patient.first_name),
      StripOnly(patient.dob)>>

\* not key or key == "||"
KeyIsEmpty(key) == key = <<"", "", "">>

SeenHas(sn, key) == \E e \in sn : e[1] = key

\* seen[key]: the position, in patient_records, of the object first seen
\* with this key
SeenRef(sn, key) == (CHOOSE e \in sn : e[1] = key)[2]

\* a merge in which a non-empty value of the duplicate replaces the original
MergeIntoOverwriting(orig, dup) ==
    [f \in DOMAIN orig \cup DOMAIN dup |->
        IF f \in DOMAIN dup /\ (f \notin DOMAIN orig \/ dup[f] # "")
        THEN dup[f] ELSE orig[f]]

\* for field in patient: if field not in seen[key] or not seen[key][field]:
\*     seen[key][field] = patient[field]
MergeInto(orig, dup) ==
    [f \in DOMAIN orig \cup DOMAIN dup |->
        IF f \in DOMAIN dup /\ (f \notin DOMAIN orig \/ orig[f] = "")
        THEN dup[f] ELSE orig[f]]

DedupState ==
    [patient_records |-> patient_records, seen |-> seen,
     deduplicated |-> deduplicated, duplicate_count |-> duplicate_count,
     duplicate_details |-> duplicate_details]

\* deduplicate_patients with the duplicate branch missing its
\* duplicate_count += 1
dedup_patient_uncounted(st, n) ==
    LET patient == st.patient_records[n]
        key == build_dedup_key(patient)
    IN  IF KeyIsEmpty(key)
        THEN [st EXCEPT !.deduplicated = Append(@, n)]
        ELSE IF SeenHas(st.seen, key)
        THEN LET o == SeenRef(st.seen, key)
                 orig == st.patient_records[o]
             IN  [st EXCEPT
                    !.duplicate_details = Append(@,
                        [patient_key |-> key,
                         duplicate_system |-> patient.source_system,
                         original_system |-> orig.source_system,
                         patient_id_dup |-> patient.patient_id,
                         patient_id_orig |-> orig.patient_id]),
                    !.patient_records[o] = MergeInto(orig, patient)]
        ELSE [st EXCEPT !.seen = @ \cup {<<key, n>>},
                        !.deduplicated = Append(@, n)]

\* one iteration of "for patient in patient_records"; the records are
\* objects, so seen and deduplicated hold positions in patient_records and
\* the merge writes to the first-seen object itself
dedup_patient(st, n) ==
    LET patient == st.patient_records[n]
        key == build_dedup_key(patient)
    IN  IF KeyIsEmpty(key)
        THEN [st EXCEPT !.deduplicated = Append(@, n)]
        ELSE IF SeenHas(st.seen, key)
        THEN LET o == SeenRef(st.seen, key)
                 orig == st.patient_records[o]
             IN  [st EXCEPT
                    !.duplicate_count = @ + 1,
                    !.duplicate_details = Append(@,
                        [patient_key |-> key,
                         duplicate_system |-> patient.source_system,
                         original_system |-> orig.source_system,
                         patient_id_dup |-> patient.patient_id,
                         patient_id_orig |-> orig.patient_id]),
                    !.patient_records[o] = MergeInto(orig, patient)]
        ELSE [st EXCEPT !.seen = @ \cup {<<key, n>>},
                        !.deduplicated = Append(@, n)]

InitDedup(inputs) ==
    /\ patient_records \in inputs
    /\ dd_input = patient_records
    /\ dd_idx = 0
    /\ seen = {}
    /\ deduplicated = <<>>
    /\ duplicate_count = 0
    /\ duplicate_details = <<>>
    /\ pcDedup = "loop"

IdleDedup ==
    /\ patient_records = <<>>
    /\ dd_input = <<>>
    /\ dd_idx = 0
    /\ seen = {}
    /\ deduplicated = <<>>
    /\ duplicate_count = 0
    /\ duplicate_details = <<>>
    /\ pcDedup = "idle"

\* for patient in patient_records: ...
DedupPatient ==
    /\ pcDedup = "loop"
    /\ dd_idx < Len(patient_records)
    /\ LET st == dedup_patient(DedupState, dd_idx + 1)
       IN  /\ patient_records' = st.patient_records
           /\ seen' = st.seen
           /\ deduplicated' = st.deduplicated
           /\ duplicate_count' = st.duplicate_count
           /\ duplicate_details' = st.duplicate_details
    /\ dd_idx' = dd_idx + 1
    /\ UNCHANGED <<dd_input, pcDedup, notDedup>>

\* return deduplicated, duplicate_count, duplicate_details
DedupReturn ==
    /\ pcDedup = "loop"
    /\ dd_idx >= Len(patient_records)
    /\ pcDedup' = "done"
    /\ UNCHANGED <<patient_records, dd_input, dd_idx, seen, deduplicated,
                   duplicate_count, duplicate_details, notDedup>>

NextDedup == DedupPatient \/ DedupReturn

\* the list the caller receives: the objects deduplicated refers to
DedupOutput == [m \in 1..Len(deduplicated) |-> patient_records[deduplicated[m]]]


----------------------------------------------------------------------------
(* denials_db_loader.py: ingest_835_directory; run_denials_rcm.py: main *)

\* INSERT OR REPLACE INTO Claims_Denials: Claim_ID is the primary key
Upsert(table, row) == {r \in table : r.Claim_ID # row.Claim_ID} \cup {row}

RECURSIVE UpsertAll(_, _)
UpsertAll(table, rows) ==
    IF rows = <<>> THEN table
    ELSE UpsertAll(Upsert(table, Head(rows)), Tail(rows))

IngestState ==
    [db_pending |-> db_pending, aborted |-> FALSE]

\* the body of "for fname in files": a name that does not end in .edi is
\* skipped; the file is parsed and each denial inserted in the open
\* transaction.  No try/except surrounds parse_835_file, here or in main:
\* an exception leaves ingest_835_directory and ends the run
ingest_file(st, file) ==
    IF file.ext # "edi" THEN st
    ELSE LET denials == parse_835_file(file.segs, file.dir)
         IN  IF denials.raised
             THEN [st EXCEPT !.aborted = TRUE]
             ELSE [st EXCEPT !.db_pending = UpsertAll(@, denials.results)]

InitIngest(inputs) ==
    /\ edi_files \in inputs
    /\ file_idx = 0
    /\ db_pending = {}
    /\ db_committed = {}
    /\ pcIngest = "loop"

IdleIngest ==
    /\ edi_files = <<>>
    /\ file_idx = 0
    /\ db_pending = {}
    /\ db_committed = {}
    /\ pcIngest = "idle"

\* for fname in files: ...; an uncaught exception ends the process before
\* conn.commit(), so the open transaction is rolled back
IngestFile ==
    /\ pcIngest = "loop"
    /\ file_idx < Len(edi_files)
    /\ LET st == ingest_file(IngestState, edi_files[file_idx + 1])
       IN  /\ db_pending' = IF st.aborted THEN db_committed ELSE st.db_pending
           /\ pcIngest' = IF st.aborted THEN "aborted" ELSE "loop"
    /\ file_idx' = file_idx + 1
    /\ UNCHANGED <<edi_files, db_committed, notIngest>>

\* conn.commit()
IngestCommit ==
    /\ pcIngest = "loop"
    /\ file_idx >= Len(edi_files)
    /\ db_committed' = db_pending
    /\ pcIngest' = "committed"
    /\ UNCHANGED <<edi_files, file_idx, db_pending, notIngest>>

NextIngest == IngestFile \/ IngestCommit


----------------------------------------------------------------------------
(* eob_to_835.py: the pieces of generate_835 *)

\* DEFAULT_CARC_MAPPING: non-standard code -> standard code
DEFAULT_CARC_MAPPING ==
    <<<<"N001", "167">>, <<"N002", "185">>, <<"N003", "197">>,
      <<"N004", "29">>, <<"N005", "27">>, <<"N006", "18">>, <<"N007", "4">>,
      <<"N008", "97">>, <<"N009", "1">>, <<"N010", "222">>>>

\* code.strip() on the adjustment codes of the model
StripCode(code) == IF code = " 45" THEN "45" ELSE code

map_carc_code(code, mapping) ==
    IF DictHas(mapping, StripCode(code))
    THEN DictGet(mapping, StripCode(code))
    ELSE StripCode(code)

\* "{:.2f}".format(amount), amount in cents
format_amount(amount) ==
    CASE amount = 0     -> "0.00"
      [] amount = 2500  -> "25.00"
      [] amount = 5000  -> "50.00"
      [] amount = 7500  -> "75.00"
      [] amount = 10000 -> "100.00"

\* s.upper() on the status and plan strings of the model
Upper(s) ==
    CASE s = "Denied"        -> "DENIED"
      [] s = "denied"        -> "DENIED"
      [] s = "Paid"          -> "PAID"
      [] s = "Secondary PPO" -> "SECONDARY PPO"
      [] OTHER               -> s

\* "SECONDARY" in plan
HasSecondary(plan) == plan \in {"SECONDARY PPO", "SECONDARY"}

\* determine_claim_status_code comparing the status as it was written
determine_claim_status_code_exact(eob) ==
    IF eob.claim_status = "DENIED" \/ eob.total_paid = 0 THEN "4"
    ELSE IF HasSecondary(Upper(eob.plan_type)) THEN "2"
    ELSE "1"

determine_claim_status_code(eob) ==
    LET plan == Upper(eob.plan_type)
        status == Upper(eob.claim_status)
    IN  IF status = "DENIED" \/ eob.total_paid = 0 THEN "4"
        ELSE IF HasSecondary(plan) THEN "2"
        ELSE "1"

\* the first key of the mapping, in dict order, contained in plan_type.upper()
_plan_type_to_code(plan_type) ==
    LET pt == Upper(plan_type)
    IN  CASE pt = "HMO" -> "HM"
          [] pt \in {"PPO", "SECONDARY PPO"} -> "PP"
          [] pt = "MEDICARE" -> "MA"
          [] OTHER -> "ZZ"

\* parse_date_to_edi: MM/DD/YYYY to YYYYMMDD
parse_date_to_edi(d) ==
    CASE d = "01/15/2024" -> "20240115"
      [] d = "01/10/2024" -> "20240110"
      [] OTHER            -> ""

\* prod_date[2:8]
YYMMDD(d) == IF d = "20240115" THEN "240115" ELSE ""

\* (s + " " * 15)[:15]
Pad15(s) ==
    CASE s = "60054"      -> "60054          "
      [] s = "1234567890" -> "1234567890     "
      [] OTHER            -> "               "

\* str(n).zfill(9), str(n).zfill(4) and str(n)
DecimalStrings ==
    <<"1", "2", "3", "4", "5", "6", "7", "8", "9", "10", "11", "12", "13",
      "14", "15", "16", "17", "18", "19", "20", "21", "22", "23", "24", "25",
      "26", "27", "28", "29", "30", "31", "32", "33", "34", "35", "36", "37",
      "38", "39", "40", "41", "42", "43", "44", "45", "46", "47", "48">>

Str(n) == DecimalStrings[n]

Zfill9(n) == <<"000000001", "000000002", "000000003", "000000004">>[n]

Zfill4(n) == <<"0001", "0002", "0003", "0004">>[n]

\* "HC:" + cpt
HcOf(cpt) ==
    CASE cpt = "99213" -> "HC:99213"
      [] cpt = "99214" -> "HC:99214"
      [] OTHER         -> "HC:"

\* eob.get("patient_name", ",").split(",")
SplitComma(name) ==
    CASE name = "DOE, JOHN" -> <<"DOE", " JOHN">>
      [] OTHER              -> <<name>>

\* tax_id.replace("-", "")
RemoveHyphens(s) == IF s = "12-3456789" THEN "123456789" ELSE s

----------------------------------------------------------------------------
(* eob_to_835.py: generate_835 *)

\* coinsurance of a service line: what the patient owes beyond deductible
\* and copay, when allowed > 0 (the 0.005 threshold is below one cent)
LineCoinsurance(svc) ==
    IF svc.allowed > 0
       /\ svc.allowed - svc.paid > svc.deductible + svc.copay
    THEN (svc.allowed - svc.paid) - (svc.deductible + svc.copay)
    ELSE 0

\* the mapped codes of the line that are not the PR codes 1, 2, 3
RECURSIVE CoAdjustments(_, _)
CoAdjustments(codes, mapping) ==
    IF codes = <<>> THEN <<>>
    ELSE LET mapped == map_carc_code(Head(codes), mapping)
         IN  IF mapped \in {"1", "2", "3"}
             THEN CoAdjustments(Tail(codes), mapping)
             ELSE <<mapped>> \o CoAdjustments(Tail(codes), mapping)

\* for extra_code in co_adjustments[1:6]: seg += "*" + extra_code + "*0.00"
RECURSIVE ExtraCodes(_)
ExtraCodes(codes) ==
    IF codes = <<>> THEN <<>>
    ELSE <<Head(codes), "0.00">> \o ExtraCodes(Tail(codes))

CoSegment(co_adjustments, amount) ==
    <<"CAS", "CO", co_adjustments[1], format_amount(amount)>>
        \o ExtraCodes(SubSeq(co_adjustments, 2,
                             IF Len(co_adjustments) < 6
                             THEN Len(co_adjustments) ELSE 6))

\* the CO CAS segment of a line without the write-off of a line that has no
\* contractual code
CoSegmentsNoWriteOff(svc, co_adjustments, co_net, pr_total_from_line) ==
    IF co_adjustments # <<>> /\ co_net > 0
    THEN <<CoSegment(co_adjustments, co_net)>>
    ELSE IF co_adjustments # <<>> /\ svc.adj_amount > 0
            /\ pr_total_from_line = 0
    THEN <<CoSegment(co_adjustments, svc.adj_amount)>>
    ELSE <<>>

\* the CO CAS segment of a line: none or one
CoSegments(svc, co_adjustments, co_net, pr_total_from_line) ==
    IF co_adjustments # <<>> /\ co_net > 0
    THEN <<CoSegment(co_adjustments, co_net)>>
    ELSE IF co_adjustments # <<>> /\ svc.adj_amount > 0
            /\ pr_total_from_line = 0
    THEN <<CoSegment(co_adjustments, svc.adj_amount)>>
    ELSE IF co_adjustments = <<>> /\ svc.billed > svc.allowed
            /\ svc.allowed > 0
    THEN IF svc.billed - svc.allowed > 0
         THEN <<<<"CAS", "CO", "45", format_amount(svc.billed - svc.allowed)>>>>
         ELSE <<>>
    ELSE IF co_adjustments = <<>> /\ svc.paid = 0 /\ svc.billed > 0
    THEN <<<<"CAS", "CO", "45", format_amount(svc.billed)>>>>
    ELSE <<>>

\* the PR CAS segments of a line: deductible, coinsurance, copay
PrSegments(pr_deductible, coinsurance, pr_copay) ==
    (IF pr_deductible > 0
     THEN <<<<"CAS", "PR", "1", format_amount(pr_deductible)>>>> ELSE <<>>)
    \o (IF coinsurance > 0
        THEN <<<<"CAS", "PR", "2", format_amount(coinsurance)>>>> ELSE <<>>)
    \o (IF pr_copay > 0
        THEN <<<<"CAS", "PR", "3", format_amount(pr_copay)>>>> ELSE <<>>)

\* the body of "for svc in eob['service_lines']"
ServiceLineSegments(svc, service_date, mapping) ==
    LET coinsurance == LineCoinsurance(svc)
        co_adjustments == CoAdjustments(svc.adj_codes, mapping)
        pr_total_from_line == svc.deductible + svc.copay + coinsurance
        co_net == IF svc.adj_amount - pr_total_from_line < 0 THEN 0
                  ELSE svc.adj_amount - pr_total_from_line
    IN  <<<<"SVC", HcOf(svc.cpt), format_amount(svc.billed),
            format_amount(svc.paid), "", "1">>,
          <<"DTM", "472", service_date>>>>
        \o CoSegments(svc, co_adjustments, co_net, pr_total_from_line)
        \o PrSegments(svc.deductible, coinsurance, svc.copay)
        \o <<<<"AMT", "B6", format_amount(svc.allowed)>>>>

RECURSIVE AllLineSegments(_, _, _)
AllLineSegments(lines, service_date, mapping) ==
    IF lines = <<>> THEN <<>>
    ELSE ServiceLineSegments(Head(lines), service_date, mapping)
         \o AllLineSegments(Tail(lines), service_date, mapping)

\* the "seg_count += 1" statements one service line executes: SVC, DTM*472,
\* the branch of the CO chain taken (if one is), the three PR tests, AMT*B6
LineSegCount(svc, mapping) ==
    LET coinsurance == LineCoinsurance(svc)
        co_adjustments == CoAdjustments(svc.adj_codes, mapping)
        pr_total_from_line == svc.deductible + svc.copay + coinsurance
        co_net == IF svc.adj_amount - pr_total_from_line < 0 THEN 0
                  ELSE svc.adj_amount - pr_total_from_line
        co == IF co_adjustments # <<>>
              THEN IF co_net > 0 \/ (svc.adj_amount > 0 /\ pr_total_from_line = 0)
                   THEN 1 ELSE 0
              ELSE IF svc.billed > svc.allowed /\ svc.allowed > 0
              THEN 1
              ELSE IF svc.paid = 0 /\ svc.billed > 0 THEN 1 ELSE 0
    IN  2 + co
          + (IF svc.deductible > 0 THEN 1 ELSE 0)
          + (IF coinsurance > 0 THEN 1 ELSE 0)
          + (IF svc.copay > 0 THEN 1 ELSE 0)
          + 1

RECURSIVE LinesSegCount(_, _)
LinesSegCount(lines, mapping) ==
    IF lines = <<>> THEN 0
    ELSE LineSegCount(Head(lines), mapping)
         + LinesSegCount(Tail(lines), mapping)

\* a count that leaves out the payee address segments
seg_count_without_address(eob, mapping) ==
    1 + 7 + 2 + LinesSegCount(eob.service_lines, mapping) + 1

\* seg_count when SE is written: 1 for ST, one per segment appended from BPR
\* to the payee N1, the payee N3 and N4 when written, CLP and NM1, the
\* service lines, and 1 for SE itself
seg_count(eob, mapping) ==
    1 + 7
      + (IF eob.provider_address_line # ""
         THEN 1 + (IF eob.provider_city # "" /\ eob.provider_state # ""
                   THEN 1 ELSE 0)
         ELSE 0)
      + 2
      + LinesSegCount(eob.service_lines, mapping)
      + 1

\* the segments from ST up to the patient NM1
HeaderSegments(eob, control_number, prod_date) ==
    <<<<"ST", "835", Zfill4(control_number), "005010X221A1">>,
      <<"BPR", IF eob.total_paid > 0 THEN "I" ELSE "H",
        format_amount(eob.total_paid), "C", "CHK", "", "", "", "", Strip(eob.payer_id),
        "", "", "01", "", "", prod_date>>,
      <<"TRN", "1", eob.eob_number, RemoveHyphens(eob.tax_id)>>,
      <<"DTM", "405", prod_date>>,
      <<"N1", "PR", eob.payer_name>>,
      <<"N3", "PO BOX 1000">>,
      <<"N4", "DALLAS", "TX", "75201">>,
      <<"N1", "PE", eob.provider_name, "XX", eob.npi>>>>
    \o (IF eob.provider_address_line # ""
        THEN <<<<"N3", eob.provider_address_line>>>>
             \o (IF eob.provider_city # "" /\ eob.provider_state # ""
                 THEN <<<<"N4", eob.provider_city, eob.provider_state,
                          eob.provider_zip>>>>
                 ELSE <<>>)
        ELSE <<>>)
    \o <<<<"CLP", eob.claim_number, determine_claim_status_code(eob),
           format_amount(eob.total_billed), format_amount(eob.total_paid),
           format_amount(eob.patient_responsibility),
           _plan_type_to_code(eob.plan_type), eob.eob_number>>,
         LET name_parts == SplitComma(eob.patient_name)
         IN  <<"NM1", "QC", "1", Strip(name_parts[1]),
               IF Len(name_parts) > 1 THEN Strip(name_parts[2]) ELSE "",
               "", "", "", "MI", eob.member_id>>>>

\* generate_835: the segments of the interchange, each tokenized into its
\* elements (the text is these segments, elements joined by "*", each ended
\* by "~" and the segments joined by "\n"); hhmm_isa and hhmm_gs are what
\* the two calls of datetime.now().strftime("%H%M") gave
generate_835(eob, carc_mapping, control_number, group_control, hhmm_isa, hhmm_gs) ==
    LET prod_date == parse_date_to_edi(eob.date)
        service_date == parse_date_to_edi(eob.service_from)
        counted == HeaderSegments(eob, control_number, prod_date)
                   \o AllLineSegments(eob.service_lines, service_date,
                                      carc_mapping)
    IN  <<<<"ISA", "00", "          ", "00", "          ", "ZZ",
            Pad15(eob.payer_id), "ZZ", Pad15(eob.npi), YYMMDD(prod_date),
            hhmm_isa, "^", "00501", Zfill9(control_number), "0", "P", ":">>,
          <<"GS", "HP", Strip(eob.payer_id), Strip(eob.npi), prod_date, hhmm_gs,
            Str(group_control), "X", "005010X221A1">>>>
        \o counted
        \o <<<<"SE", Str(seg_count(eob, carc_mapping)),
               Zfill4(control_number)>>,
             <<"GE", "1", Str(group_control)>>,
             <<"IEA", "1", Zfill9(control_number)>>>>

\* raw.replace("\n", "").split("~") then seg.split("*") on the text of
\* generate_835: its segments, followed by the empty piece after the last "~"
Tokenize835(segs) == Append(segs, <<"">>)

----------------------------------------------------------------------------
(* eob_to_835.py: process_practice_type and ConversionTracker *)

\* the raw adjustment codes of every service line, in order
RECURSIVE AllRawCodes(_)
AllRawCodes(lines) ==
    IF lines = <<>> THEN <<>>
    ELSE Head(lines).adj_codes \o AllRawCodes(Tail(lines))

\* ConversionTracker.record_carc_mapping counting a code's first occurrence
\* only
record_carc_mapping_first_only(usage, original_code, mapped_code) ==
    IF DictHas(usage, original_code) THEN usage
    ELSE Append(usage, <<original_code,
                         [mapped_code |-> mapped_code, count |-> 1]>>)

\* ConversionTracker.record_carc_mapping: the entry is made at the code's
\* first occurrence, with count 0, and count += 1 at every occurrence
record_carc_mapping(usage, original_code, mapped_code) ==
    LET made == IF DictHas(usage, original_code) THEN usage
                ELSE Append(usage, <<original_code,
                                     [mapped_code |-> mapped_code,
                                      count |-> 0]>>)
        entry == DictGet(made, original_code)
    IN  DictSet(made, original_code, [entry EXCEPT !.count = @ + 1])

\* tracker.record_carc_mapping for every code that the mapping changes
RECURSIVE RecordCarcMappings(_, _, _)
RecordCarcMappings(usage, codes, mapping) ==
    IF codes = <<>> THEN usage
    ELSE LET raw == Head(codes)
             mapped == map_carc_code(raw, mapping)
             next == IF mapped # raw
                     THEN record_carc_mapping(usage, raw, mapped)
                     ELSE usage
         IN  RecordCarcMappings(next, Tail(codes), mapping)

\* write_conversion_summary: unmapped = [c for c in carc_mapping_usage
\*     if carc_mapping_usage[c]["mapped_code"] == c]
UnmappedOfSummary(usage) ==
    SelectSeq([n \in 1..Len(usage) |-> usage[n][1]],
              LAMBDA c : DictGet(usage, c).mapped_code = c)

\* the instants datetime.now().strftime("%H%M") can give, in order
ClockStrings == <<"0959", "1000">>

ConvState ==
    [edi_out |-> edi_out, total_paid_dollars |-> total_paid_dollars,
     total_denied_dollars |-> total_denied_dollars, is_denied |-> is_denied,
     total_by_practice |-> total_by_practice,
     conversion_logs |-> conversion_logs,
     carc_mapping_usage |-> carc_mapping_usage]

\* the "except Exception" of the generation block without its calls of the
\* tracker
generation_failed_unrecorded(st, eob, original_codes, mapped_codes, remapped) ==
    [st EXCEPT !.edi_out = Append(@, <<>>)]

\* the "except Exception" of the generation block: the file is counted as
\* failed and logged with GENERATION_ERROR; no 835 stands for it
generation_failed(st, eob, original_codes, mapped_codes, remapped) ==
    [st EXCEPT
       !.edi_out = Append(@, <<>>),
       !.total_by_practice.processed = @ + 1,
       !.total_by_practice.fail = @ + 1,
       !.conversion_logs = Append(@,
           [claim_id |-> eob.claim_number,
            original_carc_codes |-> original_codes,
            mapped_carc_codes |-> mapped_codes,
            was_remapped |-> IF remapped THEN "Yes" ELSE "No",
            total_billed |-> eob.total_billed,
            total_paid |-> eob.total_paid,
            conversion_status |-> "GENERATION_ERROR"])]

\* the body of "for idx, eob_file in enumerate(eob_files, start=1)": a file
\* parse_eob_text cannot read (the empty sequence) is recorded as failed and
\* skipped; otherwise the codes are mapped and recorded, the 835 is generated
\* and written, and the tracker updated; written is whether generating and
\* writing the output file went through without an exception
convert_eob(st, file, idx, carc_mapping, hhmm_isa, hhmm_gs, written) ==
    IF file = <<>>
    THEN [st EXCEPT
            !.edi_out = Append(@, <<>>),
            !.total_by_practice.processed = @ + 1,
            !.total_by_practice.fail = @ + 1,
            !.conversion_logs = Append(@,
                [claim_id |-> "UNKNOWN", original_carc_codes |-> {},
                 mapped_carc_codes |-> {}, was_remapped |-> "N/A",
                 total_billed |-> 0, total_paid |-> 0,
                 conversion_status |-> "PARSE_ERROR"])]
    ELSE LET eob == file[1]
             raw == AllRawCodes(eob.service_lines)
             all_original_codes == {raw[n] : n \in 1..Len(raw)}
             all_mapped_codes ==
                 {map_carc_code(raw[n], carc_mapping) : n \in 1..Len(raw)}
             any_remapped ==
                 \E n \in 1..Len(raw) : map_carc_code(raw[n], carc_mapping) # raw[n]
             denied == Upper(eob.claim_status) = "DENIED" \/ eob.total_paid = 0
             st1 == [st EXCEPT !.carc_mapping_usage =
                                  RecordCarcMappings(@, raw, carc_mapping)]
         IN  IF ~written
             THEN generation_failed(st1, eob, all_original_codes,
                                    all_mapped_codes, any_remapped)
             ELSE
             [st1 EXCEPT
                !.edi_out = Append(@, <<generate_835(eob, carc_mapping, idx, idx,
                                                     hhmm_isa, hhmm_gs)>>),
                !.is_denied = denied,
                !.total_paid_dollars = @ + eob.total_paid,
                !.total_denied_dollars =
                    IF denied THEN @ + eob.total_billed ELSE @,
                !.total_by_practice.processed = @ + 1,
                !.total_by_practice.success = @ + 1,
                !.conversion_logs = Append(@,
                    [claim_id |-> eob.claim_number,
                     original_carc_codes |-> all_original_codes,
                     mapped_carc_codes |-> all_mapped_codes,
                     was_remapped |-> IF any_remapped THEN "Yes" ELSE "No",
                     total_billed |-> eob.total_billed,
                     total_paid |-> eob.total_paid,
                     conversion_status |-> "SUCCESS"])]

InitConv(inputs) ==
    /\ eob_files \in inputs
    /\ eob_idx = 0
    /\ edi_out = <<>>
    /\ total_paid_dollars = 0
    /\ total_denied_dollars = 0
    /\ is_denied = FALSE
    /\ total_by_practice = [processed |-> 0, success |-> 0, fail |-> 0]
    /\ conversion_logs = <<>>
    /\ carc_mapping_usage = <<>>
    /\ reparsed = <<>>
    /\ pcConv = "loop"

IdleConv ==
    /\ eob_files = <<>>
    /\ eob_idx = 0
    /\ edi_out = <<>>
    /\ total_paid_dollars = 0
    /\ total_denied_dollars = 0
    /\ is_denied = FALSE
    /\ total_by_practice = [processed |-> 0, success |-> 0, fail |-> 0]
    /\ conversion_logs = <<>>
    /\ carc_mapping_usage = <<>>
    /\ reparsed = <<>>
    /\ pcConv = "idle"

\* for idx, eob_file in enumerate(eob_files, start=1): ...
ConvertEob ==
    /\ pcConv = "loop"
    /\ eob_idx < Len(eob_files)
    /\ \E a, b \in 1..Len(ClockStrings), written \in BOOLEAN :
          /\ a <= b
          /\ LET st == convert_eob(ConvState, eob_files[eob_idx + 1],
                                   eob_idx + 1, DEFAULT_CARC_MAPPING,
                                   ClockStrings[a], ClockStrings[b], written)
             IN  /\ edi_out' = st.edi_out
                 /\ total_paid_dollars' = st.total_paid_dollars
                 /\ total_denied_dollars' = st.total_denied_dollars
                 /\ is_denied' = st.is_denied
                 /\ total_by_practice' = st.total_by_practice
                 /\ conversion_logs' = st.conversion_logs
                 /\ carc_mapping_usage' = st.carc_mapping_usage
    /\ eob_idx' = eob_idx + 1
    /\ UNCHANGED <<eob_files, reparsed, pcConv, notConv>>

\* the end of process_practice_type
ConvertDone ==
    /\ pcConv = "loop"
    /\ eob_idx >= Len(eob_files)
    /\ pcConv' = "written"
    /\ UNCHANGED <<eob_files, eob_idx, edi_out, total_paid_dollars,
                   total_denied_dollars, is_denied, total_by_practice,
                   conversion_logs, carc_mapping_usage, reparsed, notConv>>

\* parse_835_file on the next file the converter wrote (no file was written
\* for an EOB that did not parse)
ReparseOutput ==
    /\ pcConv = "written"
    /\ Len(reparsed) < Len(edi_out)
    /\ LET out == edi_out[Len(reparsed) + 1]
       IN  reparsed' = Append(reparsed,
               IF out = <<>> THEN <<>>
               ELSE <<parse_835_file(Tokenize835(out[1]), PracticeType)>>)
    /\ UNCHANGED <<eob_files, eob_idx, edi_out, total_paid_dollars,
                   total_denied_dollars, is_denied, total_by_practice,
                   conversion_logs, carc_mapping_usage, pcConv, notConv>>

NextConv == ConvertEob \/ ConvertDone \/ ReparseOutput

----------------------------------------------------------------------------
(* etl_engine.py: run_etl over the discovered HL7 files.  A file is taken as *)
(* the (system, practice type) directory it lies in and the PID data of the *)
(* messages parse_hl7_message reads from it; file_map holds the files in    *)
(* the order sorted(file_map.items()) visits them.                          *)

\* systems = ["system_a", "system_b", "system_c"], and the practice-type
\* directories of the model, each in sorted order
Systems == <<"system_a", "system_b">>
PracticeTypes == <<"cardiology", "oncology">>

IndexOf(sq, x) == CHOOSE n \in 1..Len(sq) : sq[n] = x

\* the order of sorted(file_map.items()): by system, then by practice type
FileRank(file) ==
    IndexOf(Systems, file.system) * (Len(PracticeTypes) + 1)
        + IndexOf(PracticeTypes, file.practice_type)

FilesSorted(fs) ==
    \A n, m \in 1..Len(fs) : n < m => FileRank(fs[n]) <= FileRank(fs[m])

\* build_patient_row(msg, practice_type)
build_patient_row(msg, practice_type) ==
    [patient_id |-> msg.pid.patient_id,
     source_system |-> msg.source_system,
     practice_type |-> practice_type,
     last_name |-> msg.pid.last_name,
     first_name |-> msg.pid.first_name,
     dob |-> msg.pid.dob,
     phone |-> msg.pid.phone]

\* practice_data[practice_type]["patients"], [] for a practice type not yet
\* seen (defaultdict)
PatientsOf(pd, practice_type) ==
    IF DictHas(pd, practice_type) THEN DictGet(pd, practice_type) ELSE <<>>

\* "for filepath in filepaths": one file of the parse loop of run_etl
RECURSIVE etl_messages(_, _, _)
etl_messages(st, file, n) ==
    IF n > Len(file.messages) THEN st
    ELSE LET parsed == [pid |-> file.messages[n],
                        source_system |-> file.system]
             row == build_patient_row(parsed, file.practice_type)
         IN  etl_messages(
                 [st EXCEPT
                    !.stats.messages_parsed = @ + 1,
                    !.practice_data =
                        DictSet(@, file.practice_type,
                                Append(PatientsOf(@, file.practice_type),
                                       row))],
                 file, n + 1)

etl_file(st, file) ==
    IF file.error # ""
    THEN [st EXCEPT !.stats.parse_errors =
                        Append(@, <<file.system, file.practice_type,
                                    file.error>>)]
    ELSE etl_messages(st, file, 1)

RECURSIVE DedupFrom(_, _)
DedupFrom(st, n) ==
    IF n > Len(st.patient_records) THEN st
    ELSE DedupFrom(dedup_patient(st, n), n + 1)

\* deduplicate_patients(patient_records) as a function of the list
deduplicate_patients(recs) ==
    LET st == DedupFrom([patient_records |-> recs, seen |-> {},
                         deduplicated |-> <<>>, duplicate_count |-> 0,
                         duplicate_details |-> <<>>], 1)
    IN  [deduplicated |->
            [k \in 1..Len(st.deduplicated) |->
                st.patient_records[st.deduplicated[k]]],
         duplicate_count |-> st.duplicate_count,
         duplicate_details |-> st.duplicate_details]

\* sorted(practice_data.keys())
SortedKeys(pd) == SelectSeq(PracticeTypes, LAMBDA t : DictHas(pd, t))

\* "for practice_type in sorted(practice_data.keys())": deduplicate the
\* patients gathered for this practice type and add to the totals
etl_post_process(st, practice_type) ==
    LET d == deduplicate_patients(DictGet(st.practice_data, practice_type))
    IN  [st EXCEPT
           !.stats.duplicates_found = @ + d.duplicate_count,
           !.stats.duplicate_details = @ \o d.duplicate_details,
           !.practice_data = DictSet(@, practice_type, d.deduplicated),
           !.stats.patients_total = @ + Len(d.deduplicated)]

EmptyStats ==
    [messages_parsed |-> 0, parse_errors |-> <<>>, duplicates_found |-> 0,
     duplicate_details |-> <<>>, patients_total |-> 0]

EtlState == [practice_data |-> practice_data, stats |-> stats]

InitEtl(inputs) ==
    /\ file_map \in inputs
    /\ etl_idx = 0
    /\ practice_data = <<>>
    /\ stats = EmptyStats
    /\ pt_idx = 0
    /\ pcEtl = "run"

IdleEtl ==
    /\ file_map = <<>>
    /\ etl_idx = 0
    /\ practice_data = <<>>
    /\ stats = EmptyStats
    /\ pt_idx = 0
    /\ pcEtl = "idle"

\* for (system, practice_type), filepaths in sorted(file_map.items()):
\*     for filepath in filepaths: ...
EtlFile ==
    /\ pcEtl = "run"
    /\ etl_idx < Len(file_map)
    /\ LET st == etl_file(EtlState, file_map[etl_idx + 1])
       IN  /\ practice_data' = st.practice_data
           /\ stats' = st.stats
    /\ etl_idx' = etl_idx + 1
    /\ UNCHANGED <<file_map, pt_idx, pcEtl, notEtl>>

\* for practice_type in sorted(practice_data.keys()): ...
EtlPostProcess ==
    /\ pcEtl = "run"
    /\ etl_idx >= Len(file_map)
    /\ pt_idx < Len(SortedKeys(practice_data))
    /\ LET st == etl_post_process(EtlState,
                                  SortedKeys(practice_data)[pt_idx + 1])
       IN  /\ practice_data' = st.practice_data
           /\ stats' = st.stats
    /\ pt_idx' = pt_idx + 1
    /\ UNCHANGED <<file_map, etl_idx, pcEtl, notEtl>>

\* return stats
EtlReturn ==
    /\ pcEtl = "run"
    /\ etl_idx >= Len(file_map)
    /\ pt_idx >= Len(SortedKeys(practice_data))
    /\ pcEtl' = "done"
    /\ UNCHANGED <<file_map, etl_idx, practice_data, stats, pt_idx, notEtl>>

NextEtl == EtlFile \/ EtlPostProcess \/ EtlReturn

----------------------------------------------------------------------------
(* realtime_eligibility.py: EDI271Parser.parse_file called several times on  *)
(* one parser object.  A call is the path given, the segments _tokenize     *)
(* makes of the file's text and the time datetime.now() shows during it.    *)

\* patients = [] on entry of _walk_segments, the list of the call before
\* kept instead
walk_entry_carried(previous) == previous

\* patients = [] on entry of _walk_segments: the parser object keeps nothing
\* of the call before (its only attribute is verbose)
walk_entry(previous) == <<>>

IdleFile ==
    /\ calls = <<>>
    /\ call_idx = 0
    /\ returns = <<>>

\* parse_file(filepath): segments = self._tokenize(raw_text), then the entry of
\* _walk_segments(segments, filepath)
ParseFileCall ==
    /\ pc271 = "idle"
    /\ call_idx < Len(calls)
    /\ call_idx' = call_idx + 1
    /\ filepath' = calls[call_idx + 1].filepath
    /\ segments' = calls[call_idx + 1].segments
    /\ i' = 0
    /\ patients' = walk_entry(patients)
    /\ current_payer' = EmptyPayer
    /\ current_provider' = EmptyProvider
    /\ current_patient' = <<>>
    /\ context' = "envelope"
    /\ pc271' = "walk"
    /\ fin' = 0
    /\ clock' = 0
    /\ UNCHANGED <<calls, returns, notWalkOrFile>>

\* return self._walk_segments(segments, filepath)
ParseFileReturn ==
    /\ pc271 = "done"
    /\ call_idx > 0
    /\ returns' = Append(returns, patients)
    /\ pc271' = "idle"
    /\ UNCHANGED <<calls, call_idx, filepath, segments, i, patients,
                   current_payer, current_provider, current_patient, context,
                   fin, clock, notWalkOrFile>>

\* a step of _walk_segments while the time stands at the time of the call
WalkAtCallTime ==
    /\ call_idx > 0
    /\ NextWalk
    /\ clock' = clock \/ clock' = calls[call_idx].now

NextFile == ParseFileCall \/ ParseFileReturn \/ WalkAtCallTime

----------------------------------------------------------------------------
(* The X12 tokenizers on raw text: EDI271Parser._tokenize and the split at  *)
(* the head of parse_835_file.  Text is a sequence of characters.           *)

\* str.replace(ch, "")
Remove(text, ch) == SelectSeq(text, LAMBDA c : c # ch)

\* str.split(sep) for a one-character separator: the pieces between the
\* separators, empty pieces included
RECURSIVE SplitOn(_, _)
SplitOn(text, sep) ==
    IF \A n \in 1..Len(text) : text[n] # sep THEN <<text>>
    ELSE LET n == CHOOSE q \in 1..Len(text) :
                      text[q] = sep /\ \A r \in 1..(q - 1) : text[r] # sep
         IN  <<SubSeq(text, 1, n - 1)>>
             \o SplitOn(SubSeq(text, n + 1, Len(text)), sep)

Whitespace == {" ", "\n", "\r"}

\* str.strip()
RECURSIVE StripText(_)
StripText(text) ==
    IF text = <<>> THEN text
    ELSE IF Head(text) \in Whitespace THEN StripText(Tail(text))
    ELSE IF text[Len(text)] \in Whitespace
    THEN StripText(SubSeq(text, 1, Len(text) - 1))
    ELSE text

MapSeq(sq, Op(_)) == [n \in 1..Len(sq) |-> Op(sq[n])]

\* EDI271Parser._tokenize(raw_text)
_tokenize(text) ==
    LET cleaned == Remove(Remove(text, "\n"), "\r")
        seg_strings ==
            SelectSeq(MapSeq(SplitOn(cleaned, "~"), StripText),
                      LAMBDA t : t # <<>>)
    IN  MapSeq(seg_strings, LAMBDA t : SplitOn(t, "*"))

\* parse_835_file: raw = fh.read().replace("\n", ""), segments =
\* raw.split("~"), parts = seg.split("*"), and the segments its loop goes
\* on with (if not parts or not parts[0]: continue)
split_835(text) ==
    SelectSeq(MapSeq(SplitOn(Remove(text, "\n"), "~"),
                     LAMBDA t : SplitOn(t, "*")),
              LAMBDA parts : parts # <<>> /\ parts[1] # <<>>)

\* the text of segments each followed by the separator
RECURSIVE JoinWith(_, _)
JoinWith(bodies, sep) ==
    IF bodies = <<>> THEN <<>>
    ELSE Head(bodies) \o sep \o JoinWith(Tail(bodies), sep)

InitTok(inputs, seps) ==
    /\ tok_bodies \in inputs
    /\ tok_sep \in seps
    /\ raw_text = JoinWith(tok_bodies, tok_sep)
    /\ tokens271 = <<>>
    /\ tokens835 = <<>>

IdleTok ==
    /\ tok_bodies = <<>>
    /\ tok_sep = <<>>
    /\ raw_text = <<>>
    /\ tokens271 = <<>>
    /\ tokens835 = <<>>

\* segments = self._tokenize(raw_text)
Tokenize271 ==
    /\ tok_sep # <<>>
    /\ tokens271 = <<>>
    /\ _tokenize(raw_text) # <<>>
    /\ tokens271' = _tokenize(raw_text)
    /\ UNCHANGED <<tok_bodies, tok_sep, raw_text, tokens835, notTok>>

\* the head of parse_835_file
Split835 ==
    /\ tok_sep # <<>>
    /\ tokens835 = <<>>
    /\ split_835(raw_text) # <<>>
    /\ tokens835' = split_835(raw_text)
    /\ UNCHANGED <<tok_bodies, tok_sep, raw_text, tokens271, notTok>>

NextTok == Tokenize271 \/ Split835

----------------------------------------------------------------------------
(* etl_engine.py: extract_messages_from_file.  The file is a sequence of    *)
(* lines, each followed by a line terminator; text is a sequence of         *)
(* characters.                                                              *)

\* open(filepath, "r").read(): universal newlines, "\r\n" and "\r" are read
\* as "\n"
RECURSIVE UniversalNewlines(_)
UniversalNewlines(text) ==
    IF text = <<>> THEN <<>>
    ELSE IF Head(text) = "\r"
    THEN IF Len(text) > 1 /\ text[2] = "\n"
         THEN <<"\n">> \o UniversalNewlines(SubSeq(text, 3, Len(text)))
         ELSE <<"\n">> \o UniversalNewlines(Tail(text))
    ELSE <<Head(text)>> \o UniversalNewlines(Tail(text))

\* the text has "MSH|" at position p
HasMshAt(text, p) ==
    /\ p + 3 <= Len(text)
    /\ SubSeq(text, p, p + 3) = <<"M", "S", "H", "|">>

\* the places "MSH|" stands at, wherever in a line
SplitPointsAnywhere(text) == {p \in 1..Len(text) : HasMshAt(text, p)}

\* the places (?=^MSH\|) matches under re.MULTILINE: "MSH|" at the start of
\* the text or right after a "\n"
SplitPoints(text) ==
    {p \in 1..Len(text) : HasMshAt(text, p) /\ (p = 1 \/ text[p - 1] = "\n")}

\* re.split at the given places: the piece before the first place (empty
\* when the text starts there), then a piece from each place to the next
RECURSIVE SplitAt(_, _, _)
SplitAt(text, points, from) ==
    LET later == {p \in points : p >= from}
    IN  IF later = {} THEN <<SubSeq(text, from, Len(text))>>
        ELSE LET p == CHOOSE q \in later : \A r \in later : q <= r
             IN  IF p = from /\ from > 1
                 THEN SplitAt(text, points \ {p}, from)
                 ELSE <<SubSeq(text, from, p - 1)>> \o SplitAt(text, points \ {p}, p)

\* p.strip().startswith("MSH")
StartsWithMSH(text) == Len(text) >= 3 /\ SubSeq(text, 1, 3) = <<"M", "S", "H">>

\* extract_messages_from_file on the text read: the messages, or the error
extract_messages(text) ==
    IF StripText(text) = <<>>
    THEN [messages |-> <<>>, error |-> "Empty file"]
    ELSE LET parts == SplitAt(text, SplitPoints(text), 1)
             found == SelectSeq(MapSeq(parts, StripText),
                                LAMBDA t : t # <<>> /\ StartsWithMSH(t))
             anywhere == SplitPointsAnywhere(text)
         IN  IF found = <<>> /\ anywhere # {}
             THEN LET idx == CHOOSE q \in anywhere : \A r \in anywhere : q <= r
                  IN  [messages |-> <<StripText(SubSeq(text, idx, Len(text)))>>,
                       error |-> ""]
             ELSE [messages |-> found, error |-> ""]

InitHl7(inputs, seps) ==
    /\ hl7_lines \in inputs
    /\ hl7_sep \in seps
    /\ hl7_readable \in BOOLEAN
    /\ content = <<>>
    /\ messages = <<>>
    /\ hl7_error = ""
    /\ pcHl7 = "open"

IdleHl7 ==
    /\ hl7_lines = <<>>
    /\ hl7_sep = <<>>
    /\ hl7_readable = FALSE
    /\ content = <<>>
    /\ messages = <<>>
    /\ hl7_error = ""
    /\ pcHl7 = "idle"

\* with open(filepath, "r", ...) as f: content = f.read(), and the rest of
\* extract_messages_from_file on what was read
ExtractMessages ==
    /\ pcHl7 = "open"
    /\ hl7_readable
    /\ content' = UniversalNewlines(JoinWith(hl7_lines, hl7_sep))
    /\ messages' = extract_messages(content').messages
    /\ hl7_error' = extract_messages(content').error
    /\ pcHl7' = "done"
    /\ UNCHANGED <<hl7_lines, hl7_sep, hl7_readable, notHl7>>

\* except (IOError, OSError) as e: return [], str(e)
ExtractFails ==
    /\ pcHl7 = "open"
    /\ ~hl7_readable
    /\ messages' = <<>>
    /\ hl7_error' = "IOError"
    /\ pcHl7' = "done"
    /\ UNCHANGED <<hl7_lines, hl7_sep, hl7_readable, content, notHl7>>

NextHl7 == ExtractMessages \/ ExtractFails

----------------------------------------------------------------------------
(* etl_engine.py: parse_hl7_message, called on each message of a file; a  *)
(* message is the list split_segments gives, each segment the list of     *)
(* fields split_fields gives                                              *)

\* field.split("^") on the fields of the model
Components(field) ==
    CASE field = "85025^CBC" -> <<"85025", "CBC">>
      [] field = "80053^CMP" -> <<"80053", "CMP">>
      [] field = "718-7^HGB" -> <<"718-7", "HGB">>
      [] OTHER               -> <<field>>

get_field(fields, index) ==
    IF index < Len(fields) THEN fields[index + 1] ELSE ""

get_component(field, index) ==
    IF field = "" THEN ""
    ELSE IF index < Len(Components(field))
    THEN Components(field)[index + 1] ELSE ""

\* parse_obr: the identifying fields of the order (the two date fields and
\* the result status, which nothing below reads, are left out)
parse_obr(fields, source_system) ==
    [set_id |-> get_field(fields, 1),
     placer_order_number |-> get_component(get_field(fields, 2), 0),
     filler_order_number |-> get_component(get_field(fields, 3), 0),
     procedure_code |-> get_component(get_field(fields, 4), 0),
     procedure_description |-> get_component(get_field(fields, 4), 1),
     source_system |-> source_system]

\* parse_obx: the fields of the observation (units, range, flag and status
\* left out); it sets no parent_order field
parse_obx(fields, source_system) ==
    [set_id |-> get_field(fields, 1),
     value_type |-> get_field(fields, 2),
     observation_code |-> get_component(get_field(fields, 3), 0),
     observation_description |-> get_component(get_field(fields, 3), 1),
     result_value |-> get_field(fields, 5),
     source_system |-> source_system]

\* result = {...} at the start of parse_hl7_message
EmptyResult ==
    [msh |-> <<>>, pid |-> <<>>, pv1 |-> <<>>, dg1_list |-> <<>>,
     in1_list |-> <<>>, obr_list |-> <<>>, obx_list |-> <<>>]

\* the system the messages of the model come from
MsgSystem == "system_a"

\* a call that starts with the order the previous call ended with
message_entry_carried(previous) == previous

\* current_obr = None: a local of the call, whatever earlier calls read
message_entry(previous) == <<>>

\* if current_obr: obx_data["parent_order_code"] = ...; ["parent_order_desc"]
link_obx(obx_data, cur) ==
    IF cur # <<>>
    THEN obx_data @@ [parent_order_code |-> cur[1].procedure_code,
                      parent_order_desc |-> cur[1].procedure_description]
    ELSE obx_data

\* one iteration of "for segment_str in segments"; st holds result and
\* current_obr; parse_msh, parse_pid, parse_pv1, parse_dg1 and parse_in1 are
\* kept as the fields they are given
parse_hl7_segment(st, fields) ==
    LET seg_name == IF fields # <<>> THEN fields[1] ELSE ""
    IN  CASE seg_name = "MSH" -> [st EXCEPT !.result.msh = fields]
          [] seg_name = "PID" -> [st EXCEPT !.result.pid = fields]
          [] seg_name = "PV1" -> [st EXCEPT !.result.pv1 = fields]
          [] seg_name = "DG1" ->
               [st EXCEPT !.result.dg1_list = Append(@, fields)]
          [] seg_name = "IN1" ->
               [st EXCEPT !.result.in1_list = Append(@, fields)]
          [] seg_name = "OBR" ->
               LET obr == parse_obr(fields, MsgSystem)
               IN  [st EXCEPT !.current_obr = <<obr>>,
                              !.result.obr_list = Append(@, obr)]
          [] seg_name = "OBX" ->
               [st EXCEPT !.result.obx_list =
                   Append(@, link_obx(parse_obx(fields, MsgSystem),
                                      st.current_obr))]
          [] OTHER -> st

InitMsg(inputs) ==
    /\ hl7_msgs \in inputs
    /\ msg_idx = 0
    /\ seg_pos = 0
    /\ current_obr = <<>>
    /\ hl7_result = EmptyResult
    /\ hl7_parsed = <<>>
    /\ pcMsg = "next"

IdleMsg ==
    /\ hl7_msgs = <<>>
    /\ msg_idx = 0
    /\ seg_pos = 0
    /\ current_obr = <<>>
    /\ hl7_result = EmptyResult
    /\ hl7_parsed = <<>>
    /\ pcMsg = "idle"

\* for raw_msg in messages: parsed = parse_hl7_message(raw_msg, ...), up to
\* the first segment
ParseMessageCall ==
    /\ pcMsg = "next"
    /\ msg_idx < Len(hl7_msgs)
    /\ msg_idx' = msg_idx + 1
    /\ seg_pos' = 0
    /\ current_obr' = message_entry(current_obr)
    /\ hl7_result' = EmptyResult
    /\ pcMsg' = "segments"
    /\ UNCHANGED <<hl7_msgs, hl7_parsed, notMsg>>

ParseMessageSegment ==
    /\ pcMsg = "segments"
    /\ seg_pos < Len(hl7_msgs[msg_idx])
    /\ LET st == parse_hl7_segment(
                     [result |-> hl7_result, current_obr |-> current_obr],
                     hl7_msgs[msg_idx][seg_pos + 1])
       IN  /\ hl7_result' = st.result
           /\ current_obr' = st.current_obr
    /\ seg_pos' = seg_pos + 1
    /\ UNCHANGED <<hl7_msgs, msg_idx, hl7_parsed, pcMsg, notMsg>>

\* return result (None for a message without segments)
ParseMessageReturn ==
    /\ pcMsg = "segments"
    /\ seg_pos >= Len(hl7_msgs[msg_idx])
    /\ hl7_parsed' = Append(hl7_parsed,
                            IF hl7_msgs[msg_idx] = <<>> THEN <<>>
                            ELSE <<hl7_result>>)
    /\ pcMsg' = "next"
    /\ UNCHANGED <<hl7_msgs, msg_idx, seg_pos, current_obr, hl7_result,
                   notMsg>>

ParseMessagesDone ==
    /\ pcMsg = "next"
    /\ msg_idx >= Len(hl7_msgs)
    /\ pcMsg' = "done"
    /\ UNCHANGED <<hl7_msgs, msg_idx, seg_pos, current_obr, hl7_result,
                   hl7_parsed, notMsg>>

NextMsg ==
    ParseMessageCall \/ ParseMessageSegment \/ ParseMessageReturn
    \/ ParseMessagesDone

----------------------------------------------------------------------------
(* realtime_eligibility.py: the coinsurance EB segments the 271 generator *)
(* writes, as the elements _tokenize splits them into on "*"              *)

\* f"EB*A*IND*{svc_code}**{plan_type_code}*23*{coinsurance_in}"
coinsurance_eb_in(svc_code, plan_type_code, pct) ==
    <<"EB", "A", "IND", svc_code, "", plan_type_code, "23", pct>>

\* f"EB*A*IND*{svc_code}**{plan_type_code}*23*{coinsurance_out}***N": three
\* separators after the percentage, so two empty elements and then "N"
coinsurance_eb_out(svc_code, plan_type_code, pct) ==
    <<"EB", "A", "IND", svc_code, "", plan_type_code, "23", pct, "", "", "N">>

----------------------------------------------------------------------------
(* Inputs of the 271 walker *)

HL20 == <<"HL", "1", "", "20", "1">>
HL21 == <<"HL", "2", "1", "21", "1">>
HL22 == <<"HL", "3", "2", "22", "0">>
HL22pad == <<"HL", "4", "2", " 22 ", "0">>
HL23 == <<"HL", "5", "3", "23", "0">>
HLshort == <<"HL", "6", "2">>
NM1ILa == <<"NM1", "IL", "1", "DOE", "JOHN", "", "", "", "MI", "M001">>
NM1ILb == <<"NM1", "IL", "1", "ROE", "JANE", "", "", "", "MI", "M002">>
EB1 == <<"EB", "1", "IND", "30", "", "PP">>
EB6 == <<"EB", "6", "IND", "30">>
EBC == <<"EB", "C", "IND", "30", "", "", "23", "50.00">>
EBbad == <<"EB", "C", "IND", "30", "", "", "23", "abc">>
DTP357past == <<"DTP", "357", "D8", "20200101">>
DTP357today == <<"DTP", "357", "D8", "20240615">>
DTP357future == <<"DTP", "357", "D8", "20991231">>
DTP357bad == <<"DTP", "357", "D8", "2024ABCD">>
SEtrailer == <<"SE", "12", "0001">>

WalkAlphabet ==
    {HL20, HL21, HL22, HL22pad, HL23, HLshort, NM1ILa, NM1ILb,
     EB1, EB6, EBC, EBbad, DTP357past, DTP357today, DTP357future, DTP357bad,
     SEtrailer}

\* the 271 walker over every segment list of at most MaxSegs segments
InitSpecWalk ==
    InitWalk(SeqsUpTo(WalkAlphabet, MaxSegs))
    /\ IdleParse /\ IdleDedup /\ IdleMsg /\ IdleHl7 /\ IdleTok /\ IdleFile
    /\ IdleEtl /\ IdleIngest /\ IdleConv

SpecWalk == InitSpecWalk /\ [][NextWalk]_vars

----------------------------------------------------------------------------
(* C1: the walker returns one record per level-22 HL, in HL order *)

\* the segment is an HL whose level code is 22
IsHL22(seg) == seg # <<>> /\ seg[1] = "HL" /\ _elem(seg, 3) = "22"

IsHLLevel(seg, lv) == seg # <<>> /\ seg[1] = "HL" /\ _elem(seg, 3) = lv

\* the positions of the level-22 HL segments among the first n segments
HL22Positions(n) == {k \in 1..n : IsHL22(segments[k])}

\* the position of the m-th level-22 HL
NthHL22(m) ==
    CHOOSE k \in HL22Positions(Len(segments)) :
        Cardinality({q \in HL22Positions(Len(segments)) : q <= k}) = m

\* the member id the m-th subscriber loop gives among the first n segments:
\* that of its last NM1*IL read in subscriber context, "" without one
MemberIdOfLoop(m, n) ==
    LET start == NthHL22(m)
        stop == IF m < Cardinality(HL22Positions(Len(segments)))
                THEN NthHL22(m + 1) - 1 ELSE Len(segments)
        last == IF stop < n THEN stop ELSE n
        named == {k \in (start + 1)..last :
                    /\ segments[k][1] = "NM1"
                    /\ _elem(segments[k], 1) = "IL"
                    /\ \A q \in (start + 1)..(k - 1) :
                          ~IsHLLevel(segments[q], "20")
                          /\ ~IsHLLevel(segments[q], "21")}
    IN  IF named = {} THEN ""
        ELSE _elem(segments[CHOOSE k \in named : \A q \in named : q <= k], 9)

\* C1: while walking, the records flushed so far plus the open one are the
\* level-22 HL segments read so far, in order; the returned list has exactly
\* one record per level-22 HL, in HL order, and is empty iff there is none
C1_OneRecordPerHL22 ==
    LET opened == Cardinality(HL22Positions(i))
    IN  /\ pc271 = "walk" =>
              /\ (current_patient # <<>>) <=> (opened > 0)
              /\ Len(patients) = IF opened > 0 THEN opened - 1 ELSE 0
              /\ \A m \in 1..Len(patients) :
                    patients[m].member_id = MemberIdOfLoop(m, i)
              /\ opened > 0 =>
                    current_patient[1].member_id = MemberIdOfLoop(opened, i)
        /\ pc271 \in {"finalize", "done"} =>
              /\ Len(patients) = Cardinality(HL22Positions(Len(segments)))
              /\ \A m \in 1..Len(patients) :
                    patients[m].member_id = MemberIdOfLoop(m, Len(segments))
              /\ (patients = <<>>) <=> (HL22Positions(Len(segments)) = {})

\* two subscribers were returned, the first one flushed by the second HL
C1_Witness ==
    /\ pc271 = "done"
    /\ Len(patients) = 2
    /\ patients[1].member_id = "M001"
    /\ patients[2].member_id = ""

----------------------------------------------------------------------------
(* Inputs of parse_835_file *)

N1PR == <<"N1", "PR", "AETNA">>
CLPa == <<"CLP", "CLM001", "4", "100.00", "0.00", "0.00", "12", "PCN1">>
CLPb == <<"CLP", "CLM002", "1", "50.00", "25.00">>
CLPbad == <<"CLP", "CLM003", "4", "abc", "0.00">>
CLPshort == <<"CLP", "CLM004">>
CLPtag == <<"CLP">>
CAS16 == <<"CAS", "CO", "16", "100.00", "1">>
CAS45 == <<"CAS", "CO", "45", "50.00">>
CASshort == <<"CAS", "PR">>
SVCline == <<"SVC", "HC:99213", "100.00", "0.00">>
DTM232 == <<"DTM", "232", "20240615">>
BPRseg == <<"BPR", "H", "0.00">>
Blank == <<"">>

ParseAlphabet ==
    {N1PR, CLPa, CLPb, CLPbad, CLPshort, CLPtag, CAS16, CAS45, CASshort,
     SVCline, DTM232, BPRseg, Blank}

\* parse_835_file over every segment list of at most MaxSegs segments
InitSpecParse ==
    IdleWalk /\ InitParse(SeqsUpTo(ParseAlphabet, MaxSegs))
    /\ IdleDedup /\ IdleMsg /\ IdleHl7 /\ IdleTok /\ IdleFile
    /\ IdleEtl /\ IdleIngest /\ IdleConv

SpecParse == InitSpecParse /\ [][NextParse]_vars

----------------------------------------------------------------------------
(* C2: parse_835_file returns one record per CLP segment, in CLP order *)

CLPPositions(n) == {k \in 1..n : segs835[k][1] = "CLP"}

NthCLP(m) ==
    CHOOSE k \in CLPPositions(Len(segs835)) :
        Cardinality({q \in CLPPositions(Len(segs835)) : q <= k}) = m

\* parts[1] of the m-th CLP segment, "" when it has none
ClaimIdOfCLP(m) ==
    LET parts == segs835[NthCLP(m)]
    IN  IF Len(parts) > 1 THEN parts[2] ELSE ""

\* C2: whatever the segment list, the run ends by returning exactly one
\* record per CLP segment, in CLP order (none appended twice, none lost)
C2_OneRecordPerCLP ==
    pc835 \in {"returned", "raised"} =>
        /\ pc835 = "returned"
        /\ Len(results) = Cardinality(CLPPositions(Len(segs835)))
        /\ \A m \in 1..Len(results) : results[m].Claim_ID = ClaimIdOfCLP(m)

----------------------------------------------------------------------------
(* Inputs of deduplicate_patients *)

PatA == [patient_id |-> "A1", source_system |-> "system_a",
         last_name |-> "DOE", first_name |-> "JOHN", dob |-> "1980-01-01",
         phone |-> ""]
PatB == [patient_id |-> "B7", source_system |-> "system_b",
         last_name |-> " doe ", first_name |-> "John", dob |-> "1980-01-01",
         phone |-> "(555) 010-0000"]
PatC == [patient_id |-> "C3", source_system |-> "system_c",
         last_name |-> "ROE", first_name |-> "JANE", dob |-> "1975-05-05",
         phone |-> "(555) 010-9999"]
PatD == [patient_id |-> "D4", source_system |-> "system_a",
         last_name |-> "DOE", first_name |-> "JOHN", dob |-> "",
         phone |-> ""]
PatNoKey == [patient_id |-> "E5", source_system |-> "system_b",
             last_name |-> "", first_name |-> "", dob |-> " ",
             phone |-> "(555) 010-1111"]
PatNoKey2 == [patient_id |-> "", source_system |-> "system_c",
              last_name |-> "", first_name |-> "", dob |-> "",
              phone |-> ""]

PatientAlphabet == {PatA, PatB, PatC, PatD, PatNoKey, PatNoKey2}

InitSpecDedup ==
    IdleWalk /\ IdleParse /\ IdleIngest /\ IdleMsg /\ IdleHl7 /\ IdleTok
    /\ IdleFile /\ IdleEtl /\ IdleConv
    /\ InitDedup(SeqsUpTo(PatientAlphabet, MaxPatients))

SpecDedup == InitSpecDedup /\ [][NextDedup]_vars

----------------------------------------------------------------------------
(* C3: one record per non-empty key, one count and one audit entry per *)
(* redundant record                                                     *)

\* the key of the n-th input record, computed on the input as it was given
InputKey(n) == build_dedup_key(dd_input[n])

\* the n-th input record repeats the non-empty key of an earlier one
IsRedundant(n) ==
    /\ ~KeyIsEmpty(InputKey(n))
    /\ \E m \in 1..(n - 1) : InputKey(m) = InputKey(n)

RedundantUpTo(n) == {k \in 1..n : IsRedundant(k)}

\* the positions, in order, of the records that are not redundant
RECURSIVE KeptPositions(_, _)
KeptPositions(n, upto) ==
    IF n > upto THEN <<>>
    ELSE IF IsRedundant(n) THEN KeptPositions(n + 1, upto)
    ELSE <<n>> \o KeptPositions(n + 1, upto)

\* the redundant positions, in order
RECURSIVE RedundantPositions(_, _)
RedundantPositions(n, upto) ==
    IF n > upto THEN <<>>
    ELSE IF IsRedundant(n) THEN <<n>> \o RedundantPositions(n + 1, upto)
    ELSE RedundantPositions(n + 1, upto)

\* C3: after any number of records, the output holds the first record seen
\* of every non-empty key (and every record without a key), in input order;
\* duplicate_count counts each redundant record once, so that it is
\* len(input) - len(output) on return; duplicate_details holds one entry
\* per redundant record
C3_DedupCounts ==
    LET red == RedundantPositions(1, dd_idx)
    IN  /\ pcDedup \in {"loop", "done"} =>
              /\ deduplicated = KeptPositions(1, dd_idx)
              /\ \A a, b \in 1..Len(DedupOutput) :
                    (a # b /\ ~KeyIsEmpty(build_dedup_key(DedupOutput[a])))
                    => build_dedup_key(DedupOutput[a])
                          # build_dedup_key(DedupOutput[b])
              /\ duplicate_count = Cardinality(RedundantUpTo(dd_idx))
              /\ Len(duplicate_details) = Len(red)
              /\ \A m \in 1..Len(red) :
                    /\ duplicate_details[m].patient_key = InputKey(red[m])
                    /\ duplicate_details[m].patient_id_dup
                          = dd_input[red[m]].patient_id
        /\ pcDedup = "done" =>
              duplicate_count = Len(dd_input) - Len(DedupOutput)

\* three records, two of them redundant copies of the first under different
\* spellings, were deduplicated to one
C3_Witness ==
    /\ pcDedup = "done"
    /\ Len(dd_input) = 3
    /\ duplicate_count = 2
    /\ Len(DedupOutput) = 1
    /\ dd_input[1] # dd_input[2]

----------------------------------------------------------------------------
(* Inputs of ingest_835_directory *)

FileGood1 == [ext |-> "edi", dir |-> "cardiology",
              segs |-> <<N1PR, CLPa, CAS16, Blank>>]
FileGood2 == [ext |-> "edi", dir |-> "radiology",
              segs |-> <<CLPb, CAS45, <<"CLP", "CLM005", "4", "25.00">>, Blank>>]
FileBad == [ext |-> "edi", dir |-> "cardiology",
            segs |-> <<<<"CLP", "CLM006", "4", "50.00">>, CLPbad, Blank>>]
FileTxt == [ext |-> "txt", dir |-> "cardiology", segs |-> <<CLPbad>>]

FileAlphabet == {FileGood1, FileGood2, FileBad, FileTxt}

InitSpecIngest ==
    IdleWalk /\ IdleParse /\ IdleDedup /\ IdleMsg /\ IdleHl7 /\ IdleTok
    /\ IdleFile /\ IdleEtl /\ IdleConv
    /\ InitIngest(SeqsUpTo(FileAlphabet, MaxFiles))

SpecIngest == InitSpecIngest /\ [][NextIngest]_vars

----------------------------------------------------------------------------
(* C4: a parse failure on one file does not abort the batch *)

\* the n-th file is an .edi file that parse_835_file parses
Parses(n) ==
    /\ edi_files[n].ext = "edi"
    /\ ~parse_835_file(edi_files[n].segs, edi_files[n].dir).raised

ClaimIdsOfFile(n) ==
    LET rs == parse_835_file(edi_files[n].segs, edi_files[n].dir).results
    IN  {rs[m].Claim_ID : m \in 1..Len(rs)}

\* C4: the run over a directory never aborts as a whole, and when it ends
\* the claims of every file that parses, before or after a failing one,
\* are committed to Claims_Denials
C4_BatchSurvivesBadFile ==
    /\ pcIngest # "aborted"
    /\ pcIngest = "committed" =>
          \A n \in 1..Len(edi_files) :
              Parses(n) =>
                  \A id \in ClaimIdsOfFile(n) :
                      \E row \in db_committed : row.Claim_ID = id

----------------------------------------------------------------------------
(* C5: a non-numeric money element defaults to zero and aborts nothing *)

\* the CLP segment carries a billed amount that float() cannot read
NonNumericCLP(parts) ==
    /\ parts[1] = "CLP"
    /\ Len(parts) > 3
    /\ parts[4] # ""
    /\ FloatRaises(parts[4])

\* C5: a CLP whose billed amount is not numeric never makes parse_835_file
\* raise; the claim it opens is recorded with a billed amount of 0 and the
\* loop goes on to the remaining segments
C5_NonNumericAmountIsZero ==
    \A n \in 1..k835 :
        NonNumericCLP(segs835[n]) =>
            /\ pc835 # "raised"
            /\ n = k835 =>
                  /\ current # <<>>
                  /\ current[1].Claim_ID = segs835[n][2]
                  /\ current[1].Balance_Amount = 0

\* the EB half of the same statement, which the walker satisfies: an EB
\* deductible whose amount is not numeric leaves the deductible at 0 and the
\* record is still returned
EbNonNumericAmountIsZero ==
    (pc271 = "walk" /\ i > 0 /\ segments[i] = EBbad /\ current_patient # <<>>
     /\ \A q \in 1..(i - 1) : segments[q][1] # "EB")
        => current_patient[1].deductible = 0

----------------------------------------------------------------------------
(* Inputs of the truncation runs: every recognised segment, cut to every *)
(* length from the tag alone to the whole segment                        *)

NM1PR == <<"NM1", "PR", "2", "AETNA", "", "", "", "", "PI", "60054">>
NM11P == <<"NM1", "1P", "1", "SMITH", "ANN", "", "", "", "XX", "1234567890">>
DMGfull == <<"DMG", "D8", "19800101", "M">>
N3full == <<"N3", "1 MAIN ST">>
N4full == <<"N4", "AUSTIN", "TX", "78701">>
INSfull == <<"INS", "Y", "18">>
TRNfull == <<"TRN", "2", "TRACE1">>
DTP356 == <<"DTP", "356", "D8", "20200101">>
REF18 == <<"REF", "18", "GRP1">>
REF6P == <<"REF", "6P", "PP">>
REFEO == <<"REF", "EO", "IN">>
PRVfull == <<"PRV", "PE", "PXC", "207Q00000X">>
EBfullB == <<"EB", "B", "IND", "96", "", "PP", "23", "25.00", "", "", "", "N">>
EBfullC == <<"EB", "C", "IND", "30", "", "PP", "23", "50.00", "", "", "", "Y">>
EBfullA == <<"EB", "A", "IND", "30", "", "", "", "20", "", "", "", "Y">>
EBfullJ == <<"EB", "J", "IND", "UC", "", "", "", "", "", "", "", "Y">>
MSGfull == <<"MSG", "Pre-authorization required">>
ISAseg == <<"ISA", "00", "">>

WalkFull ==
    {HL22, NM1ILa, NM1PR, NM11P, DMGfull, N3full, N4full, INSfull, TRNfull,
     DTP356, DTP357past, REF18, REF6P, REFEO, PRVfull, EBfullB, EBfullC,
     EBfullA, EBfullJ, EB1, MSGfull, ISAseg}

\* the loops a segment can arrive in
WalkContexts == {<<>>, <<HL20>>, <<HL21>>, <<HL22>>, <<HL22, HL21>>}

Truncations(full) == {SubSeq(full, 1, n) : n \in 1..Len(full)}

TruncWalkInputs ==
    UNION {{prefix \o <<seg>> : seg \in Truncations(full)} :
              prefix \in WalkContexts, full \in WalkFull}

ParseFull == {N1PR, CLPa, CLPb, CAS16, SVCline, DTM232}

ParseContexts == {<<>>, <<CLPa>>}

TruncParseInputs ==
    UNION {{prefix \o <<seg>>, prefix \o <<seg, CLPb>>} :
              prefix \in ParseContexts,
              seg \in UNION {Truncations(full) : full \in ParseFull}}

\* the walker, or parse_835_file, over a context followed by one truncated
\* segment
InitSpecTrunc ==
    \/ /\ InitWalk(TruncWalkInputs) /\ IdleParse
       /\ IdleDedup /\ IdleMsg /\ IdleHl7 /\ IdleTok /\ IdleFile /\ IdleEtl
       /\ IdleIngest /\ IdleConv
    \/ /\ IdleWalk /\ InitParse(TruncParseInputs)
       /\ IdleDedup /\ IdleMsg /\ IdleHl7 /\ IdleTok /\ IdleFile /\ IdleEtl
       /\ IdleIngest /\ IdleConv

NextTrunc == NextWalk \/ NextParse

SpecTrunc == InitSpecTrunc /\ [][NextTrunc]_vars

----------------------------------------------------------------------------
(* C6: a truncated segment raises nothing; what it lacks reads as "" or 0 *)

\* the record fields that a segment of the tag copies from the element at
\* the Python index (text fields)
TextFieldsOf(tag) ==
    CASE tag = "NM1" -> {<<3, "patient_last">>, <<4, "patient_first">>,
                         <<9, "member_id">>}
      [] tag = "DMG" -> {<<2, "dob">>, <<3, "gender">>}
      [] tag = "N3"  -> {<<1, "address">>}
      [] tag = "N4"  -> {<<1, "city">>, <<2, "state">>, <<3, "zip">>}
      [] tag = "INS" -> {<<2, "relationship">>}
      [] tag = "TRN" -> {<<2, "trace_number">>}
      [] tag = "DTP" -> {<<3, "effective_date">>, <<3, "term_date">>}
      [] tag = "REF" -> {<<2, "group_number">>, <<2, "group_name">>,
                         <<2, "plan_type_code">>, <<2, "plan_type">>}
      [] tag = "EB"  -> {<<5, "plan_type_code">>, <<5, "plan_type">>}
      [] OTHER       -> {}

\* the money and percentage fields an EB segment fills from EB07
AmountFieldsOf(tag) ==
    IF tag = "EB"
    THEN {<<7, f>> : f \in {"deductible", "deductible_remaining",
                            "family_deductible", "family_deductible_remaining",
                            "copay", "coinsurance_pct", "coinsurance_pct_oon",
                            "oop_max", "oop_remaining", "lifetime_max"}}
    ELSE {}

\* on the record a segment was read into, every field whose element the
\* segment lacks is "" or 0
WalkMissingDefault(seg, rec) ==
    /\ \A e \in TextFieldsOf(seg[1]) : e[1] >= Len(seg) => rec[e[2]] = ""
    /\ \A e \in AmountFieldsOf(seg[1]) : e[1] >= Len(seg) => rec[e[2]] = 0
    /\ (seg[1] = "EB" /\ Len(seg) <= 7) =>
          /\ rec.copays = <<>> /\ rec.copays_oon = <<>>
          /\ rec.coinsurance_in = <<>> /\ rec.coinsurance_oon = <<>>
          /\ \A m \in 1..Len(rec.services) : rec.services[m].amount = 0
    /\ (seg[1] = "EB" /\ Len(seg) <= 6) =>
          \A m \in 1..Len(rec.services) : rec.services[m].time_period = ""
    /\ (seg[1] = "EB" /\ Len(seg) <= 3) =>
          /\ rec.services = <<>>
          /\ \A m \in 1..Len(rec.preauth_services) :
                rec.preauth_services[m].service_type_code = ""
    /\ (seg[1] = "MSG" /\ Len(seg) <= 1) =>
          rec.messages = <<>> /\ rec.preauth_messages = <<>>

\* the same for the claim (and the payer) parse_835_file read a segment into
ParseMissingDefault(parts) ==
    /\ parts[1] = "CLP" =>
          /\ current # <<>>
          /\ Len(parts) < 2 => current[1].Claim_ID = ""
          /\ Len(parts) < 3 => current[1].Status = ""
          /\ Len(parts) < 4 => current[1].Balance_Amount = 0
    /\ (parts[1] = "CAS" /\ current # <<>> /\ Len(parts) < 3) =>
          current[1].CARC_Code = "" /\ current[1].RARC_Code = ""
    /\ (parts[1] = "SVC" /\ current # <<>> /\ Len(parts) < 2) =>
          current[1].CPT_Code = ""
    /\ (parts[1] = "DTM" /\ current # <<>> /\ Len(parts) < 3) =>
          current[1].Denial_Date = ""
    /\ (parts[1] = "N1" /\ Len(parts) < 3) => payer = ""

----------------------------------------------------------------------------
(* C7: how coverage_status is derived *)

LoopCount == Cardinality(HL22Positions(Len(segments)))

LoopStart(m) == NthHL22(m)

LoopStop(m) == IF m < LoopCount THEN NthHL22(m + 1) - 1 ELSE Len(segments)

\* the EB01 codes of the EB segments of the m-th subscriber loop
EbCodesOfLoop(m) ==
    {_elem(segments[k], 1) :
        k \in {q \in (LoopStart(m) + 1)..LoopStop(m) : segments[q][1] = "EB"}}

\* the termination date of the m-th loop: that of its last DTP*357 read in
\* subscriber context, "" without one
TermDateOfLoop(m) ==
    LET dated == {k \in (LoopStart(m) + 1)..LoopStop(m) :
                    /\ segments[k][1] = "DTP"
                    /\ _elem(segments[k], 1) = "357"
                    /\ \A q \in (LoopStart(m) + 1)..(k - 1) :
                          ~IsHLLevel(segments[q], "20")
                          /\ ~IsHLLevel(segments[q], "21")}
    IN  IF dated = {} THEN ""
        ELSE _elem(segments[CHOOSE k \in dated : \A q \in dated : q <= k], 3)

SawActive(m) == EbCodesOfLoop(m) \cap {"1", "2", "3", "4", "5"} # {}

SawInactive(m) == EbCodesOfLoop(m) \cap {"6", "7", "8"} # {}

\* the termination date is a calendar date earlier than the instant now
TermDatePast(m, now) ==
    /\ TermDateOfLoop(m) \in DateStrings
    /\ StrptimeInstant(TermDateOfLoop(m)) < now

\* the status as the specification derives it
SpecStatus(m, now) ==
    IF TermDatePast(m, now) THEN "Terminated"
    ELSE IF SawInactive(m) THEN "Inactive"
    ELSE "Active"

\* the status as stated after correction: an active code wins over
\* everything; without one a past termination date gives Terminated, else
\* an inactive code gives Inactive, else the status stays Unknown
CodeStatus(m, now) ==
    IF SawActive(m) THEN "Active"
    ELSE IF TermDatePast(m, now) THEN "Terminated"
    ELSE IF SawInactive(m) THEN "Inactive"
    ELSE "Unknown"

----------------------------------------------------------------------------
(* Inputs of the EOB converter *)

BaseLine ==
    [cpt |-> "99213", billed |-> 10000, allowed |-> 7500, deductible |-> 0,
     copay |-> 2500, adj_codes |-> <<"45">>, adj_amount |-> 2500,
     paid |-> 5000]

BaseEob ==
    [payer_name |-> "AETNA", payer_id |-> "60054", plan_type |-> "PPO",
     date |-> "01/15/2024", eob_number |-> "EOB001", tax_id |-> "12-3456789",
     patient_name |-> "DOE, JOHN", member_id |-> "M001",
     provider_name |-> "CLINIC", npi |-> "1234567890",
     provider_address_line |-> "1 MAIN ST", provider_city |-> "AUSTIN",
     provider_state |-> "TX", provider_zip |-> "78701",
     claim_number |-> "CLM100", service_from |-> "01/10/2024",
     claim_status |-> "PAID", service_lines |-> <<BaseLine>>,
     total_billed |-> 10000, total_paid |-> 5000,
     patient_responsibility |-> 2500]

\* a file parse_eob_text cannot read
Unreadable == <<>>

StatusFiles ==
    {Unreadable} \cup
    {<<[BaseEob EXCEPT !.claim_status = st, !.plan_type = pl,
                       !.total_paid = pd]>> :
        st \in {"DENIED", "Denied", "PAID", ""},
        pl \in {"PPO", "Secondary PPO"},
        pd \in {0, 5000}}

\* the converter over every list of at most MaxEobs EOB files that differ in
\* claim status, plan type and paid total
InitSpecConvStatus ==
    IdleWalk /\ IdleParse /\ IdleDedup /\ IdleMsg /\ IdleHl7 /\ IdleTok
    /\ IdleFile /\ IdleEtl /\ IdleIngest
    /\ InitConv(SeqsUpTo(StatusFiles, MaxEobs))

SpecConvStatus == InitSpecConvStatus /\ [][NextConv]_vars

----------------------------------------------------------------------------
(* C8: the denied status code and the is_denied flag *)

\* the spellings of DENIED among the claim statuses of the model
DeniedSpellings == {"DENIED", "Denied", "denied"}

\* the CLP segment of a generated interchange
ClpOf(out) == out[CHOOSE k \in 1..Len(out) : out[k][1] = "CLP"]

\* the EOBs converted so far whose CLP carries the denied code
DeniedBilled(n) ==
    SeqSum([m \in 1..n |->
        IF edi_out[m] # <<>> /\ ClpOf(edi_out[m][1])[3] = "4"
        THEN eob_files[m][1].total_billed ELSE 0])

\* C8: the CLP of every generated 835 carries status "4" exactly when the
\* EOB's paid total is zero or its claim status is DENIED in any case, and
\* "1" or "2" otherwise; the is_denied flag of the iteration is true exactly
\* when the code is "4", so the denied-dollar total is the billed total of
\* the EOBs coded "4"
C8_DeniedCodeAgrees ==
    /\ \A n \in 1..Len(edi_out) :
          edi_out[n] # <<>> =>
              LET eob == eob_files[n][1]
                  code == ClpOf(edi_out[n][1])[3]
              IN  /\ code = "4" <=> (eob.total_paid = 0
                                     \/ eob.claim_status \in DeniedSpellings)
                  /\ code \in {"1", "2", "4"}
                  /\ n = eob_idx => (is_denied <=> code = "4")
    /\ total_denied_dollars = DeniedBilled(Len(edi_out))

\* a paid claim marked "Denied" was coded 4 and a paid claim under a
\* secondary plan was coded 2
C8_Witness ==
    /\ eob_idx = 2
    /\ edi_out[1] # <<>> /\ edi_out[2] # <<>>
    /\ eob_files[1][1].claim_status = "Denied"
    /\ eob_files[1][1].total_paid > 0
    /\ ClpOf(edi_out[1][1])[3] = "4"
    /\ ClpOf(edi_out[2][1])[3] = "2"
    /\ ~is_denied
    /\ total_denied_dollars = 10000

----------------------------------------------------------------------------
(* Inputs of the service-line runs: one EOB with one service line, every *)
(* amount of the line drawn independently                                *)

LineAmounts == {0, 2500, 10000}

LineCodeLists == {<<>>, <<"45">>, <<"N009", "50">>}

LineSet ==
    {[BaseLine EXCEPT !.billed = bl, !.allowed = al, !.deductible = dd,
                      !.copay = cp, !.adj_amount = aa, !.paid = pd,
                      !.adj_codes = cs] :
        bl \in LineAmounts, al \in LineAmounts, dd \in LineAmounts,
        cp \in LineAmounts, aa \in LineAmounts, pd \in LineAmounts,
        cs \in LineCodeLists}

InitSpecLines ==
    IdleWalk /\ IdleParse /\ IdleDedup /\ IdleMsg /\ IdleHl7 /\ IdleTok
    /\ IdleFile /\ IdleEtl /\ IdleIngest
    /\ InitConv({<<<<[BaseEob EXCEPT !.service_lines = <<line>>]>>>> :
                    line \in LineSet})

SpecLines == InitSpecLines /\ [][NextConv]_vars

----------------------------------------------------------------------------
(* C9: billed covers paid plus the adjustments of the line *)

\* the position of the l-th SVC segment of a generated interchange
NthSvc(out, l) ==
    CHOOSE k \in 1..Len(out) :
        /\ out[k][1] = "SVC"
        /\ Cardinality({q \in 1..k : out[q][1] = "SVC"}) = l

\* the CAS segments written for the l-th service line: those between its SVC
\* and its AMT
CasOfLine(out, l) ==
    LET start == NthSvc(out, l)
        stop == CHOOSE k \in start..Len(out) :
                    /\ out[k][1] = "AMT"
                    /\ \A q \in start..(k - 1) : out[q][1] # "AMT"
    IN  {k \in start..stop : out[k][1] = "CAS"}

\* the amounts of one CAS segment: elements 3, 5, 7, ... (Python indices)
RECURSIVE CasAmount(_, _)
CasAmount(seg, j) ==
    IF j > Len(seg) THEN 0 ELSE FloatCents(seg[j]) + CasAmount(seg, j + 2)

RECURSIVE CasTotal(_, _)
CasTotal(out, ks) ==
    IF ks = {} THEN 0
    ELSE LET k == CHOOSE q \in ks : TRUE
         IN  CasAmount(out[k], 4) + CasTotal(out, ks \ {k})

\* C9: for every service line of every generated 835, whatever the billed,
\* allowed, deductible, copay, adjustment and paid amounts of the EOB line,
\* billed >= paid + the sum of the CAS amounts written for the line - 0.01
C9_BilledCoversPaidAndAdjustments ==
    \A n \in 1..Len(edi_out) :
        edi_out[n] # <<>> =>
            \A l \in 1..Len(eob_files[n][1].service_lines) :
                LET svc == eob_files[n][1].service_lines[l]
                IN  svc.billed >= svc.paid
                                  + CasTotal(edi_out[n][1],
                                             CasOfLine(edi_out[n][1], l)) - 1

----------------------------------------------------------------------------
(* Inputs of the round-trip runs *)

DeniedLine ==
    [BaseLine EXCEPT !.allowed = 0, !.copay = 0, !.paid = 0,
                     !.adj_codes = <<"N001", "50", "16">>,
                     !.adj_amount = 10000]

WriteOffLine ==
    [BaseLine EXCEPT !.copay = 0, !.paid = 7500]

RoundFiles ==
    {Unreadable,
     <<[BaseEob EXCEPT !.service_lines = <<WriteOffLine>>,
                       !.total_paid = 7500, !.patient_responsibility = 0]>>,
     <<[BaseEob EXCEPT !.claim_number = "CLM200", !.claim_status = "DENIED",
                       !.service_lines = <<DeniedLine>>,
                       !.total_paid = 0, !.patient_responsibility = 0]>>,
     <<[BaseEob EXCEPT !.claim_number = "CLM300",
                       !.service_lines = <<BaseLine, WriteOffLine>>,
                       !.total_paid = 10000, !.total_billed = 10000]>>,
     <<[BaseEob EXCEPT !.claim_number = "CLM400", !.service_lines = <<>>,
                       !.total_billed = 0, !.total_paid = 0,
                       !.patient_responsibility = 0]>>}

InitSpecRound ==
    IdleWalk /\ IdleParse /\ IdleDedup /\ IdleMsg /\ IdleHl7 /\ IdleTok
    /\ IdleFile /\ IdleEtl /\ IdleIngest
    /\ InitConv(SeqsUpTo(RoundFiles, MaxEobs))

SpecRound == InitSpecRound /\ [][NextConv]_vars

----------------------------------------------------------------------------
(* C10: generate_835 followed by parse_835_file *)

\* the mapped adjustment codes of an EOB, line by line
RECURSIVE MappedCodes(_)
MappedCodes(codes) ==
    IF codes = <<>> THEN <<>>
    ELSE <<map_carc_code(Head(codes), DEFAULT_CARC_MAPPING)>>
         \o MappedCodes(Tail(codes))

\* the adjustment codes a parsed record holds
CodesOf(rec) ==
    (IF rec.CARC_Code # "" THEN <<rec.CARC_Code>> ELSE <<>>)
    \o (IF rec.RARC_Code # "" THEN <<rec.RARC_Code>> ELSE <<>>)

\* the paid amount a parsed record holds: none or one
PaidOf(rec) ==
    IF "Paid_Amount" \in DOMAIN rec THEN <<rec["Paid_Amount"]>> ELSE <<>>

\* C10: parsing the 835 generated for an EOB gives one record with the
\* EOB's claim number, its billed and paid totals to the cent, and the
\* complete list of its mapped adjustment codes
C10_RoundTrip ==
    \A n \in 1..Len(reparsed) :
        reparsed[n] # <<>> =>
            LET eob == eob_files[n][1]
                back == reparsed[n][1]
            IN  /\ ~back.raised
                /\ Len(back.results) = 1
                /\ back.results[1].Claim_ID = eob.claim_number
                /\ back.results[1].Balance_Amount = eob.total_billed
                /\ PaidOf(back.results[1]) = <<eob.total_paid>>
                /\ CodesOf(back.results[1])
                      = MappedCodes(AllRawCodes(eob.service_lines))

\* what the round trip does reproduce: the claim number and the billed total
RoundTripIdAndBilled ==
    \A n \in 1..Len(reparsed) :
        reparsed[n] # <<>> =>
            LET eob == eob_files[n][1]
                back == reparsed[n][1]
            IN  /\ ~back.raised
                /\ Len(back.results) = 1
                /\ back.results[1].Claim_ID = eob.claim_number
                /\ back.results[1].Balance_Amount = eob.total_billed

----------------------------------------------------------------------------
(* C11: the shape of a parsed claim record *)

\* the positions of the CAS segments that belong to the m-th CLP: those
\* between it and the next CLP
CasPositionsOfClaim(m) ==
    LET start == NthCLP(m)
        stop == IF m < Cardinality(CLPPositions(Len(segs835)))
                THEN NthCLP(m + 1) - 1 ELSE Len(segs835)
    IN  {k \in (start + 1)..stop :
            segs835[k][1] = "CAS" /\ Len(segs835[k]) >= 4}

\* group code, reason code and amount of the CAS segments of the m-th claim,
\* in segment order
RECURSIVE ExpectedAdjustments(_, _)
ExpectedAdjustments(ks, from) ==
    IF \A k \in ks : k < from THEN <<>>
    ELSE IF from \in ks
    THEN <<[group |-> segs835[from][2], code |-> segs835[from][3],
            amount |-> FloatCents(segs835[from][4])]>>
         \o ExpectedAdjustments(ks, from + 1)
    ELSE ExpectedAdjustments(ks, from + 1)

\* the adjustment entries a parsed record holds
AdjustmentsOf(rec) ==
    IF "Adjustments" \in DOMAIN rec THEN rec["Adjustments"] ELSE <<>>

\* C11: every record parse_835_file returns carries CLP01 as claim id, CLP02
\* as status, CLP03 as billed and CLP04 as paid amount, and one adjustment
\* entry {group code, reason code, amount} per CAS segment of the claim, in
\* segment order
C11_ClaimRecordShape ==
    pc835 = "returned" =>
        \A m \in 1..Len(results) :
            LET parts == segs835[NthCLP(m)]
                rec == results[m]
            IN  /\ Len(parts) > 1 => rec.Claim_ID = parts[2]
                /\ Len(parts) > 2 => rec.Status = parts[3]
                /\ Len(parts) > 3 => rec.Balance_Amount = FloatCents(parts[4])
                /\ Len(parts) > 4 => PaidOf(rec) = <<FloatCents(parts[5])>>
                /\ AdjustmentsOf(rec)
                      = ExpectedAdjustments(CasPositionsOfClaim(m), 1)

\* what the record does carry: claim id, status and billed amount of its CLP
\* and the reason codes of its first two CAS segments
ClaimRecordAsCoded ==
    pc835 = "returned" =>
        \A m \in 1..Len(results) :
            LET parts == segs835[NthCLP(m)]
                rec == results[m]
                adj == ExpectedAdjustments(CasPositionsOfClaim(m), 1)
            IN  /\ Len(parts) > 1 => rec.Claim_ID = parts[2]
                /\ Len(parts) > 2 => rec.Status = parts[3]
                /\ Len(parts) > 3 => rec.Balance_Amount = FloatCents(parts[4])
                /\ DOMAIN rec = {"Claim_ID", "Status", "Balance_Amount",
                                 "Payer_ID", "CPT_Code", "CARC_Code",
                                 "RARC_Code", "Denial_Date", "Practice_Type"}
                /\ Len(adj) >= 1 => rec.CARC_Code = adj[1].code
                /\ Len(adj) >= 2 => rec.RARC_Code = adj[2].code

----------------------------------------------------------------------------
(* C12: a subscriber HL that arrives before its parent loops *)

\* a payer HL and after it a provider HL were read before position k
ParentsOpened(k) ==
    \E q1, q2 \in 1..(k - 1) :
        /\ q1 < q2
        /\ IsHLLevel(segments[q1], "20")
        /\ IsHLLevel(segments[q2], "21")

\* C12: a level-22 HL read before a level-20 HL and a level-21 HL opened its
\* parent loops is skipped: no subscriber record is opened for it, so the
\* records returned are those of the level-22 HLs whose parents were opened
C12_OrphanSubscriberSkipped ==
    /\ (pc271 = "walk" /\ i > 0 /\ IsHL22(segments[i])
        /\ ~ParentsOpened(i) /\ HL22Positions(i - 1) = {})
          => current_patient = <<>>
    /\ pc271 \in {"finalize", "done"} =>
          Len(patients)
              = Cardinality({k \in HL22Positions(Len(segments)) :
                                ParentsOpened(k)})

----------------------------------------------------------------------------
(* C13: segments the interpreters skip *)

\* _walk_segments hands its caller the patient list and nothing else: it
\* builds no list of the segments it passed over
WalkDiagnostics == <<>>

\* parse_835_file hands its caller the result list and nothing else
ParseDiagnostics == <<>>

\* the tags some branch of _walk_segments names
WalkTags ==
    {"ISA", "GS", "ST", "BHT", "HL", "NM1", "DMG", "N3", "N4", "INS", "TRN",
     "DTP", "REF", "PRV", "EB", "MSG", "SE", "GE", "IEA"}

\* segment k of the walker's input is passed over: its tag is not one the
\* walker names, or it is a benefit, reference or message segment read while
\* no subscriber record is open
WalkSkipped(k) ==
    LET seg == segments[k]
        seg_id == IF seg # <<>> THEN seg[1] ELSE ""
    IN  \/ seg_id \notin WalkTags
        \/ seg_id \in {"EB", "MSG", "REF"} /\ HL22Positions(k - 1) = {}

\* segment k of the 835 input is passed over: its tag is not one
\* parse_835_file names, or it is a claim-level segment read before any CLP
ParseSkipped(k) ==
    LET parts == segs835[k]
        tag == IF parts # <<>> THEN parts[1] ELSE ""
    IN  /\ tag # ""
        /\ \/ tag \notin {"N1", "CLP", "CAS", "SVC", "DTM"}
           \/ /\ tag \in {"CAS", "SVC", "DTM"}
              /\ \A q \in 1..(k - 1) :
                     segs835[q] = <<>> \/ segs835[q][1] # "CLP"

\* C13: every segment an interpreter passes over is reported: the diagnostics
\* handed back with the records hold one entry per skipped segment
C13_SkippedSegmentsReported ==
    /\ pc271 = "done" =>
          Len(WalkDiagnostics)
              = Cardinality({k \in 1..Len(segments) : WalkSkipped(k)})
    /\ pc835 = "returned" =>
          Len(ParseDiagnostics)
              = Cardinality({k \in 1..Len(segs835) : ParseSkipped(k)})

----------------------------------------------------------------------------
(* Inputs of run_etl *)

PidDoe == [patient_id |-> "A1", last_name |-> "DOE", first_name |-> "JOHN",
           dob |-> "1980-01-01", phone |-> ""]
PidDoePhone == [patient_id |-> "B7", last_name |-> "DOE",
                first_name |-> "JOHN", dob |-> "1980-01-01",
                phone |-> "(555) 010-0000"]
PidRoe == [patient_id |-> "C3", last_name |-> "ROE", first_name |-> "JANE",
           dob |-> "1975-05-05", phone |-> "(555) 010-9999"]

Range(sq) == {sq[n] : n \in 1..Len(sq)}

EtlFileAlphabet ==
    {[system |-> sy, practice_type |-> pt, error |-> "", messages |-> <<p>>] :
        sy \in Range(Systems), pt \in Range(PracticeTypes),
        p \in {PidDoe, PidDoePhone, PidRoe}}
    \cup {[system |-> "system_a", practice_type |-> "cardiology",
           error |-> "Empty file", messages |-> <<>>]}

InitSpecEtl ==
    IdleWalk /\ IdleParse /\ IdleDedup /\ IdleMsg /\ IdleHl7 /\ IdleTok
    /\ IdleFile /\ IdleIngest /\ IdleConv
    /\ InitEtl({fs \in SeqsUpTo(EtlFileAlphabet, MaxEtlFiles) :
                    FilesSorted(fs)})

SpecEtl == InitSpecEtl /\ [][NextEtl]_vars

----------------------------------------------------------------------------
(* C14: duplicates across files of run_etl *)

\* the patient rows run_etl built, file by file, before deduplication
EtlInputRows ==
    LET RECURSIVE Rows(_)
        Rows(n) ==
            IF n = 0 THEN <<>>
            ELSE Rows(n - 1) \o
                 [k \in 1..Len(file_map[n].messages) |->
                     build_patient_row([pid |-> file_map[n].messages[k],
                                        source_system |-> file_map[n].system],
                                       file_map[n].practice_type)]
    IN  Rows(Len(file_map))

\* the patient rows run_etl keeps, over all practice types
EtlOutputRows ==
    LET RECURSIVE Rows(_)
        Rows(n) ==
            IF n = 0 THEN <<>> ELSE Rows(n - 1) \o practice_data[n][2]
    IN  Rows(Len(practice_data))

EtlKeys == {build_dedup_key(EtlInputRows[n]) : n \in 1..Len(EtlInputRows)}

\* C14: patient records with the same (last, first, dob) coming from
\* different files collapse into one kept record, each redundant one counted
\* once, whatever system and practice-type directory the files lie in
C14_CollapseAcrossFiles ==
    pcEtl = "done" =>
        /\ \A key \in EtlKeys :
              Cardinality({n \in 1..Len(EtlOutputRows) :
                              build_dedup_key(EtlOutputRows[n]) = key}) = 1
        /\ stats.duplicates_found
              = Len(EtlInputRows) - Cardinality(EtlKeys)

\* the same, for files of one practice type: what run_etl does
CollapseWithinPracticeType ==
    pcEtl = "done" =>
        \A pt \in Range(PracticeTypes) :
            LET ins == SelectSeq(EtlInputRows,
                                 LAMBDA r : r.practice_type = pt)
                outs == PatientsOf(practice_data, pt)
                keys == {build_dedup_key(ins[n]) : n \in 1..Len(ins)}
            IN  /\ Len(outs) = Cardinality(keys)
                /\ \A key \in keys :
                      \E n \in 1..Len(outs) : build_dedup_key(outs[n]) = key

----------------------------------------------------------------------------
(* Inputs of repeated parse_file calls: a text parsed, another file parsed, *)
(* the first text parsed again under the same or another path and time      *)

CallAlphabet == {HL22, NM1ILa, EB1, EB6, DTP357today}

CallPaths == {"in/elig_a.edi", "copy/elig_a.edi", "in/elig_b.edi"}

CallSequences ==
    {<<[filepath |-> "in/elig_a.edi", segments |-> t, now |-> n1],
       [filepath |-> "in/elig_b.edi", segments |-> <<HL22, NM1ILb>>,
        now |-> 4],
       [filepath |-> p3, segments |-> t, now |-> n3]>> :
        t \in SeqsUpTo(CallAlphabet, MaxCallSegs),
        n1 \in ClockValues, n3 \in ClockValues, p3 \in CallPaths}

InitSpecFile ==
    IdleWalk /\ IdleParse /\ IdleDedup /\ IdleMsg /\ IdleHl7 /\ IdleTok
    /\ IdleEtl /\ IdleIngest /\ IdleConv
    /\ calls \in CallSequences
    /\ call_idx = 0
    /\ returns = <<>>

SpecFile == InitSpecFile /\ [][NextFile]_vars

----------------------------------------------------------------------------
(* C15: parse_file is deterministic *)

----------------------------------------------------------------------------
(* Inputs of the code-mapping runs: EOBs whose service lines carry codes of *)
(* the mapping table, standard codes and a non-standard code the table      *)
(* lacks                                                                    *)

CodeLine(cs) == [BaseLine EXCEPT !.adj_codes = cs]

CodeEob(ls) == <<[BaseEob EXCEPT !.service_lines = ls]>>

CodeFiles ==
    {Unreadable,
     CodeEob(<<CodeLine(<<>>)>>),
     CodeEob(<<CodeLine(<<"45">>)>>),
     CodeEob(<<CodeLine(<<"N009">>)>>),
     CodeEob(<<CodeLine(<<"N777">>)>>),
     CodeEob(<<CodeLine(<<"N009", "N001">>), CodeLine(<<"N009">>)>>),
     CodeEob(<<CodeLine(<<"N001", "45">>), CodeLine(<<"N777">>)>>)}

InitSpecCodes ==
    IdleWalk /\ IdleParse /\ IdleDedup /\ IdleMsg /\ IdleHl7 /\ IdleTok
    /\ IdleFile /\ IdleEtl /\ IdleIngest
    /\ InitConv(SeqsUpTo(CodeFiles, MaxEobs))

SpecCodes == InitSpecCodes /\ [][NextConv]_vars

\* the service-line codes of the EOBs among the first n files that
\* parse_eob_text could read, one entry per occurrence
RECURSIVE ParsedCodes(_)
ParsedCodes(n) ==
    IF n = 0 THEN <<>>
    ELSE ParsedCodes(n - 1)
         \o (IF eob_files[n] = <<>> THEN <<>>
             ELSE AllRawCodes(eob_files[n][1].service_lines))

Occurrences(codes, c) == Cardinality({n \in 1..Len(codes) : codes[n] = c})

----------------------------------------------------------------------------
(* C16: codes the table lacks *)

\* C16: map_carc_code gives the table's standard code for a code of the
\* table and any other code unchanged, and at the end of the run every
\* service-line code the table lacks stands in carc_mapping_usage, mapped to
\* itself and counted once per occurrence, so that the summary lists it as
\* passed through
C16_UnmappedCodesAudited ==
    LET codes == ParsedCodes(eob_idx)
    IN  /\ \A n \in 1..Len(codes) :
              map_carc_code(codes[n], DEFAULT_CARC_MAPPING)
                  = IF DictHas(DEFAULT_CARC_MAPPING, codes[n])
                    THEN DictGet(DEFAULT_CARC_MAPPING, codes[n])
                    ELSE codes[n]
        /\ pcConv = "written" =>
              \A n \in 1..Len(codes) :
                  ~DictHas(DEFAULT_CARC_MAPPING, codes[n]) =>
                      /\ DictHas(carc_mapping_usage, codes[n])
                      /\ DictGet(carc_mapping_usage, codes[n]).count
                            = Occurrences(codes, codes[n])
                      /\ \E k \in 1..Len(UnmappedOfSummary(carc_mapping_usage)) :
                            UnmappedOfSummary(carc_mapping_usage)[k] = codes[n]

\* what the code does: map_carc_code is as stated, and the summary's list of
\* passed-through codes is always empty
UnmappedListAlwaysEmpty ==
    /\ \A n \in 1..Len(ParsedCodes(eob_idx)) :
          LET c == ParsedCodes(eob_idx)[n]
          IN  map_carc_code(c, DEFAULT_CARC_MAPPING)
                  = IF DictHas(DEFAULT_CARC_MAPPING, c)
                    THEN DictGet(DEFAULT_CARC_MAPPING, c) ELSE c
    /\ UnmappedOfSummary(carc_mapping_usage) = <<>>

----------------------------------------------------------------------------
(* C17: the usage count of a remapped code *)

\* C17: after any number of files, carc_mapping_usage holds exactly the
\* codes of the table that occurred in the service lines of the EOBs that
\* parsed, each with the table's standard code and with the number of its
\* occurrences
C17_UsageCountsOccurrences ==
    LET codes == ParsedCodes(eob_idx)
    IN  /\ \A n \in 1..Len(codes) :
              DictHas(DEFAULT_CARC_MAPPING, codes[n]) =>
                  /\ DictHas(carc_mapping_usage, codes[n])
                  /\ DictGet(carc_mapping_usage, codes[n]).mapped_code
                        = DictGet(DEFAULT_CARC_MAPPING, codes[n])
                  /\ DictGet(carc_mapping_usage, codes[n]).count
                        = Occurrences(codes, codes[n])
        /\ \A k \in 1..Len(carc_mapping_usage) :
              /\ DictHas(DEFAULT_CARC_MAPPING, carc_mapping_usage[k][1])
              /\ Occurrences(codes, carc_mapping_usage[k][1]) > 0

\* N009 occurred on two lines of one EOB and on a line of another, one of
\* the two EOBs failing in generation
C17_Witness ==
    /\ eob_idx = 2
    /\ DictHas(carc_mapping_usage, "N009")
    /\ DictGet(carc_mapping_usage, "N009").count = 3
    /\ total_by_practice.success = 1
    /\ total_by_practice.fail = 1

----------------------------------------------------------------------------
(* C20: one result and one log entry per file *)

\* the outcome of the n-th file, from what was given and what was written
StatusOfFile(n) ==
    IF eob_files[n] = <<>> THEN "PARSE_ERROR"
    ELSE IF edi_out[n] = <<>> THEN "GENERATION_ERROR"
    ELSE "SUCCESS"

\* C20: after each file, whether it failed in parsing, failed in generation
\* or was converted, processed = success + fail = the number of files
\* handled, and the conversion log holds one entry per file, in file order,
\* with the file's outcome
C20_OneResultPerFile ==
    /\ total_by_practice.processed = eob_idx
    /\ total_by_practice.processed
          = total_by_practice.success + total_by_practice.fail
    /\ total_by_practice.success
          = Cardinality({n \in 1..eob_idx : StatusOfFile(n) = "SUCCESS"})
    /\ Len(conversion_logs) = eob_idx
    /\ \A n \in 1..eob_idx :
          conversion_logs[n].conversion_status = StatusOfFile(n)

\* a file failed in generation and the loop went on to convert the next
C20_Witness ==
    /\ eob_idx = 2
    /\ conversion_logs[1].conversion_status = "GENERATION_ERROR"
    /\ conversion_logs[2].conversion_status = "SUCCESS"
    /\ total_by_practice = [processed |-> 2, success |-> 1, fail |-> 1]

----------------------------------------------------------------------------
(* Inputs of the tokenizers: segment bodies and the way they are separated *)

BodyAlphabet ==
    {<<"S", "T", "*", "1">>, <<"H", "L", "*", "*", "2">>, <<"S", "E">>,
     <<"N", "1", "*", " ", "P">>}

Separators == {<<"~">>, <<"\n">>, <<"~", "\n">>, <<"~", "\r", "\n">>,
               <<"\r", "\n">>}

TokBodies == SeqsUpTo(BodyAlphabet, MaxBodies) \ {<<>>}

InitSpecTok ==
    IdleWalk /\ IdleParse /\ IdleDedup /\ IdleMsg /\ IdleHl7 /\ IdleFile
    /\ IdleEtl /\ IdleIngest
    /\ IdleConv
    /\ InitTok(TokBodies, Separators)

SpecTok == InitSpecTok /\ [][NextTok]_vars

----------------------------------------------------------------------------
(* C18: segments separated by line breaks *)

LineBreaks == {<<"\n">>, <<"\r", "\n">>}

\* C18: a text whose segments are separated by line breaks only gives each
\* tokenizer the segment sequence it gets from the same segments terminated
\* by "~"
C18_LineBreakDelimited ==
    tok_sep \in LineBreaks =>
        /\ tokens271 # <<>> =>
              tokens271 = _tokenize(JoinWith(tok_bodies, <<"~">>))
        /\ tokens835 # <<>> =>
              tokens835 = split_835(JoinWith(tok_bodies, <<"~">>))

\* what the tokenizers do accept: "~" followed by a line break is the same
\* as "~" alone for both (after \n) and for _tokenize after \r\n too
TildeThenLineBreak ==
    /\ (tok_sep \in {<<"~", "\n">>, <<"~", "\r", "\n">>} /\ tokens271 # <<>>)
          => tokens271 = _tokenize(JoinWith(tok_bodies, <<"~">>))
    /\ (tok_sep = <<"~", "\n">> /\ tokens835 # <<>>)
          => tokens835 = split_835(JoinWith(tok_bodies, <<"~">>))

----------------------------------------------------------------------------
(* Inputs of extract_messages_from_file *)

LineMSHa == <<"M", "S", "H", "|", "a">>
LineMSHb == <<"M", "S", "H", "|", "b">>
LinePID == <<"P", "I", "D", "|", "x">>
LineInner == <<"N", "T", "E", "|", "M", "S", "H", "|", "c">>
LineIndented == <<" ", "M", "S", "H", "|", "d">>
LineBlank == <<>>

LineAlphabet ==
    {LineMSHa, LineMSHb, LinePID, LineInner, LineIndented, LineBlank}

LineTerminators == {<<"\n">>, <<"\r">>, <<"\r", "\n">>}

InitSpecHl7 ==
    IdleWalk /\ IdleParse /\ IdleDedup /\ IdleMsg /\ IdleTok
    /\ IdleFile /\ IdleEtl /\ IdleIngest /\ IdleConv
    /\ InitHl7(SeqsUpTo(LineAlphabet, MaxLines), LineTerminators)

SpecHl7 == InitSpecHl7 /\ [][NextHl7]_vars

----------------------------------------------------------------------------
(* C19: one message per MSH line *)

BeginsWithMshBar(line) == HasMshAt(line, 1)

\* the lines of the file that begin with "MSH|"
MshLines == {k \in 1..Len(hl7_lines) : BeginsWithMshBar(hl7_lines[k])}

NthMshLine(m) ==
    CHOOSE k \in MshLines : Cardinality({q \in MshLines : q <= k}) = m

\* the lines from the m-th MSH line up to the next one, joined by "\n" and
\* without the white space at both ends
ExpectedMessage(m) ==
    LET start == NthMshLine(m)
        stop == IF m < Cardinality(MshLines)
                THEN NthMshLine(m + 1) - 1 ELSE Len(hl7_lines)
    IN  StripText(JoinWith(SubSeq(hl7_lines, start, stop), <<"\n">>))

\* the file is a concatenation of messages: its first line that is not
\* blank begins with "MSH|"
ConcatenatedMessages ==
    /\ MshLines # {}
    /\ \A k \in 1..(NthMshLine(1) - 1) : hl7_lines[k] = LineBlank

\* C19: a buffer of concatenated HL7 messages is split at every line that
\* begins with "MSH|": one message per such line, in file order, each
\* beginning with MSH and holding the lines up to the next MSH line
C19_OneMessagePerMshLine ==
    (pcHl7 = "done" /\ hl7_readable /\ ConcatenatedMessages) =>
        /\ hl7_error = ""
        /\ Len(messages) = Cardinality(MshLines)
        /\ \A m \in 1..Len(messages) :
              /\ StartsWithMSH(messages[m])
              /\ messages[m] = ExpectedMessage(m)

\* two messages were split, the first holding a line with "MSH|" inside it
C19_Witness ==
    /\ pcHl7 = "done"
    /\ hl7_lines = <<LineMSHa, LineInner, LineMSHb>>
    /\ hl7_sep = <<"\r">>
    /\ Len(messages) = 2
    /\ messages[2] = LineMSHb

----------------------------------------------------------------------------
(* C21: the subscriber record after a new payer or provider loop *)

\* among the first n segments a level-22 HL opened a subscriber and a
\* level-20 or level-21 HL came after it, with no level-22 HL since
SubscriberClosedAt(n) ==
    \E q \in 1..n :
        /\ IsHLLevel(segments[q], "20") \/ IsHLLevel(segments[q], "21")
        /\ HL22Positions(q - 1) # {}
        /\ \A r \in q..n : ~IsHL22(segments[r])

\* C21: once a level-20 or level-21 HL has opened a new payer or provider
\* loop, no segment read before the next level-22 HL changes the subscriber
\* record that was open
C21_ClosedRecordUnchanged ==
    [][(/\ pc271 = "walk"
        /\ i' = i + 1
        /\ SubscriberClosedAt(i)
        /\ ~IsHL22(segments[i + 1]))
          => current_patient' = current_patient]_vars

----------------------------------------------------------------------------
(* Inputs of the 271 walker: payer, provider and subscriber loops *)

REF9K == <<"REF", "9K", "Y">>

LoopAlphabet == {HL20, HL21, HL22, NM1PR, NM11P, REFEO, REF9K}

\* the 271 walker over every list of at most MaxLoopSegs loop segments
InitSpecLoops ==
    InitWalk(SeqsUpTo(LoopAlphabet, MaxLoopSegs))
    /\ IdleParse /\ IdleDedup /\ IdleMsg /\ IdleHl7 /\ IdleTok /\ IdleFile
    /\ IdleEtl /\ IdleIngest /\ IdleConv

SpecLoops == InitSpecLoops /\ [][NextWalk]_vars

\* position of the last HL of level lv among the first n segments, 0 if none
LastHLLevel(lv, n) ==
    LET at == {q \in 1..n : IsHLLevel(segments[q], lv)}
    IN  IF at = {} THEN 0 ELSE CHOOSE q \in at : \A r \in at : r <= q

----------------------------------------------------------------------------
(* C22: a new payer loop resets the provider context *)

\* C22: a subscriber opened under a payer loop with no provider loop between
\* that loop's level-20 HL and the subscriber's level-22 HL has empty
\* provider fields and Unknown network fields
C22_NewPayerResetsProvider ==
    (pc271 = "walk" /\ current_patient # <<>>)
        => LET p == LastHLLevel("22", i)
               q == LastHLLevel("20", p)
           IN  (q > 0 /\ LastHLLevel("21", p) < q)
                  => /\ current_patient[1].provider_npi = ""
                     /\ current_patient[1].provider_name = JoinName("", "")
                     /\ current_patient[1].provider_taxonomy = ""
                     /\ current_patient[1].network_status = "Unknown"
                     /\ current_patient[1].participating = "Unknown"

----------------------------------------------------------------------------
(* C23: the network status read in a provider loop *)

\* the REF segments with qualifier qual read in the provider loop that
\* governs the subscriber opened at position p
ProviderRefs(qual, p) ==
    LET g == LastHLLevel("21", p)
    IN  {r \in (g + 1)..(p - 1) :
            /\ g > 0
            /\ segments[r][1] = "REF" /\ _elem(segments[r], 1) = qual
            /\ \A h \in (g + 1)..r : segments[h][1] # "HL"}

\* C23: a REF*EO or REF*9K read in a provider loop sets the network status or
\* the participating flag that every subscriber opened under that provider
\* inherits, the first subscriber of the input included
C23_ProviderNetworkInherited ==
    (pc271 = "walk" /\ current_patient # <<>>)
        => LET p == LastHLLevel("22", i)
           IN  /\ ProviderRefs("EO", p) # {}
                    => current_patient[1].network_status = "In-Network"
               /\ ProviderRefs("9K", p) # {}
                    => current_patient[1].participating = "Yes"

----------------------------------------------------------------------------
(* C24: segments the walker has no interpreter for *)

GSseg == <<"GS", "HB", "SENDER">>
STseg == <<"ST", "271", "0001">>
BHTseg == <<"BHT", "0022", "11">>
GEseg == <<"GE", "1", "1">>
IEAseg == <<"IEA", "1", "000000001">>
AAAseg == <<"AAA", "N", "", "42">>
LSseg == <<"LS", "2120">>

\* the tags a branch of _walk_segments interprets
InterpretedTags ==
    {"HL", "NM1", "DMG", "N3", "N4", "INS", "TRN", "DTP", "REF", "PRV", "EB",
     "MSG"}

UninterpretedSegs ==
    {ISAseg, GSseg, STseg, BHTseg, SEtrailer, GEseg, IEAseg, AAAseg, LSseg,
     <<>>}

TagContexts ==
    SeqsUpTo({HL20, HL21, HL22, NM1PR, NM11P, EB1}, MaxSegs - 1)

\* a loop context, one uninterpreted segment, and what may follow it
TagInputs ==
    {prefix \o <<seg>> \o suffix :
        prefix \in TagContexts, seg \in UninterpretedSegs,
        suffix \in {<<>>, <<EB1>>, <<HL22>>}}

InitSpecTags ==
    InitWalk(TagInputs)
    /\ IdleParse /\ IdleDedup /\ IdleMsg /\ IdleHl7 /\ IdleTok /\ IdleFile
    /\ IdleEtl /\ IdleIngest /\ IdleConv

SpecTags == InitSpecTags /\ [][NextWalk]_vars

Uninterpreted(seg) == seg = <<>> \/ seg[1] \notin InterpretedTags

\* C24: reading a segment whose tag the walker has no interpreter for leaves
\* the context, the current payer, the current provider, the open subscriber
\* record and the output list as they were
C24_UninterpretedSegmentIgnored ==
    [][(/\ pc271 = "walk"
        /\ i' = i + 1
        /\ Uninterpreted(segments[i + 1]))
          => UNCHANGED <<context, current_payer, current_provider,
                         current_patient, patients>>]_vars

\* an uninterpreted segment has just been read while a subscriber record
\* that already holds a benefit was open
C24_Witness ==
    /\ pc271 = "walk"
    /\ i > 0
    /\ Uninterpreted(segments[i])
    /\ segments[i] # <<>>
    /\ context = "subscriber"
    /\ current_patient # <<>>
    /\ current_patient[1].coverage_status = "Active"

----------------------------------------------------------------------------
(* C27: coverage_status before finalization and the order of the EBs *)

\* the EB01 codes of the EB segments read since the open subscriber's
\* level-22 HL, among the first n segments
EbCodesRead(n) ==
    {_elem(segments[k], 1) :
        k \in {q \in (LastHLLevel("22", n) + 1)..n : segments[q][1] = "EB"}}

\* C27: while the segments are walked, coverage_status of the open
\* subscriber is a function of the set of EB codes read for it: Active iff
\* some code is one of 1..5, else Inactive iff some code is 6, 7 or 8, else
\* Unknown
C27_StatusFromCodeSet ==
    (pc271 = "walk" /\ current_patient # <<>>) =>
        current_patient[1].coverage_status =
            IF EbCodesRead(i) \cap {"1", "2", "3", "4", "5"} # {} THEN "Active"
            ELSE IF EbCodesRead(i) \cap {"6", "7", "8"} # {} THEN "Inactive"
            ELSE "Unknown"

\* an inactive code was read after an active one and the status stayed
\* Active
C27_Witness ==
    /\ pc271 = "walk"
    /\ i = 3
    /\ IsHL22(segments[1])
    /\ segments[2][1] = "EB" /\ _elem(segments[2], 1) = "1"
    /\ segments[3][1] = "EB" /\ _elem(segments[3], 1) = "6"
    /\ current_patient # <<>>
    /\ current_patient[1].coverage_status = "Active"

----------------------------------------------------------------------------
(* C28: the out-of-network coinsurance EB, as written and as read *)

CoinsSvcCodes == {"30", "96"}

CoinsPcts == {"20", "40"}

CoinsEbIn ==
    {coinsurance_eb_in(svc, "PP", pct) :
        svc \in CoinsSvcCodes, pct \in CoinsPcts}

CoinsEbOut ==
    {coinsurance_eb_out(svc, "PP", pct) :
        svc \in CoinsSvcCodes, pct \in CoinsPcts}

\* one subscriber followed by generated coinsurance segments
CoinsInputs ==
    {<<HL22>> \o ebs : ebs \in SeqsUpTo(CoinsEbIn \cup CoinsEbOut, MaxSegs - 1)}

InitSpecCoins ==
    InitWalk(CoinsInputs)
    /\ IdleParse /\ IdleDedup /\ IdleMsg /\ IdleHl7 /\ IdleTok /\ IdleFile
    /\ IdleEtl /\ IdleIngest /\ IdleConv

SpecCoins == InitSpecCoins /\ [][NextWalk]_vars

\* the percentage of the last in-network coinsurance segment for svc among
\* segments 2..n, <<>> without one
LastCoinsIn(svc, n) ==
    LET at == {k \in 2..n : segments[k] \in CoinsEbIn /\ segments[k][4] = svc}
    IN  IF at = {} THEN <<>>
        ELSE << FloatCents(segments[CHOOSE k \in at : \A q \in at : q <= k][8])
                  \div 100 >>

\* C28: an out-of-network coinsurance EB as the generator writes it is read
\* as out-of-network: its services entry has in_network false, its
\* percentage is stored under coinsurance_oon for its service type, and the
\* in-network coinsurance of that service type stays what the in-network
\* segments made it
C28_OutOfNetworkAgreement ==
    (pc271 = "walk" /\ current_patient # <<>>) =>
        \A k \in 2..i :
            segments[k] \in CoinsEbOut =>
                LET svc == segments[k][4]
                    rec == current_patient[1]
                IN  /\ ~rec.services[k - 1].in_network
                    /\ DictHas(rec.coinsurance_oon, svc)
                    /\ IF LastCoinsIn(svc, i) = <<>>
                       THEN ~DictHas(rec.coinsurance_in, svc)
                       ELSE /\ DictHas(rec.coinsurance_in, svc)
                            /\ DictGet(rec.coinsurance_in, svc)
                                 = LastCoinsIn(svc, i)[1]

----------------------------------------------------------------------------
(* C25: what the merge of a duplicate changes on the first-seen record *)

MergeA == PatD
MergeB == [patient_id |-> "D5", source_system |-> "system_b",
           last_name |-> "DOE", first_name |-> "JOHN", dob |-> " ",
           phone |-> "", email |-> "jdoe@example.org"]
MergeC == [patient_id |-> "D6", source_system |-> "system_c",
           last_name |-> " doe ", first_name |-> "John", dob |-> "",
           phone |-> "(555) 010-0000"]
MergeD == [patient_id |-> "D7", source_system |-> "system_b",
           last_name |-> "DOE", first_name |-> "JOHN", dob |-> "",
           phone |-> "(555) 010-9999", email |-> ""]

MergeAlphabet == {MergeA, MergeB, MergeC, MergeD, PatC}

InitSpecMerge ==
    IdleWalk /\ IdleParse /\ IdleIngest /\ IdleMsg /\ IdleHl7 /\ IdleTok
    /\ IdleFile /\ IdleEtl /\ IdleConv
    /\ InitDedup(SeqsUpTo(MergeAlphabet, MaxPatients))

SpecMerge == InitSpecMerge /\ [][NextDedup]_vars

\* the first-seen records that have a key: the positions a merge can write to
RetainedPositions ==
    {o \in 1..dd_idx : ~KeyIsEmpty(InputKey(o)) /\ ~IsRedundant(o)}

\* the duplicates of the record at position o read so far
DuplicatesOf(o) ==
    {n \in (o + 1)..dd_idx : InputKey(n) = InputKey(o)}

\* the duplicates of o that carry a non-empty value for field f
Donors(o, f) ==
    {n \in DuplicatesOf(o) : f \in DOMAIN dd_input[n] /\ dd_input[n][f] # ""}

MergeFields(o) ==
    DOMAIN dd_input[o] \cup UNION {DOMAIN dd_input[n] : n \in DuplicatesOf(o)}

\* the merge rule: a non-empty field of the first-seen record keeps its
\* value; an empty or absent one takes the value of the earliest duplicate
\* with a non-empty value for it, and stays empty or absent without one
MergeRule(o) ==
    LET rec == patient_records[o]
        orig == dd_input[o]
    IN  \A f \in MergeFields(o) :
            IF f \in DOMAIN orig /\ orig[f] # ""
            THEN rec[f] = orig[f]
            ELSE IF Donors(o, f) # {}
            THEN rec[f] = dd_input[CHOOSE n \in Donors(o, f) :
                                      \A q \in Donors(o, f) : n <= q][f]
            ELSE f \in DOMAIN rec => rec[f] = ""

----------------------------------------------------------------------------
(* C26: the coinsurance and write-off CAS segments of a service line *)

CasCodeLists == {<<>>, <<"N009">>, <<"2">>, <<"45">>}

CasLineSet ==
    {[BaseLine EXCEPT !.billed = bl, !.allowed = al, !.deductible = dd,
                      !.copay = cp, !.adj_amount = aa, !.paid = pd,
                      !.adj_codes = cs] :
        bl \in LineAmounts, al \in LineAmounts, dd \in LineAmounts,
        cp \in LineAmounts, aa \in LineAmounts, pd \in LineAmounts,
        cs \in CasCodeLists}

\* a denied line without a code, a line with coinsurance and a PR code, and
\* a line paid although nothing was allowed
CasPairLines ==
    {[BaseLine EXCEPT !.allowed = 0, !.copay = 0, !.paid = 0,
                      !.adj_codes = <<>>, !.adj_amount = 0],
     [BaseLine EXCEPT !.allowed = 10000, !.copay = 2500, !.paid = 5000,
                      !.adj_codes = <<"2">>, !.adj_amount = 5000],
     [BaseLine EXCEPT !.allowed = 0, !.copay = 0, !.paid = 2500,
                      !.adj_codes = <<>>, !.adj_amount = 0]}

\* one EOB with one service line, or with two
CasFiles ==
    {<<<<[BaseEob EXCEPT !.service_lines = <<line>>]>>>> : line \in CasLineSet}
    \cup {<<<<[BaseEob EXCEPT !.service_lines = <<l1, l2>>]>>>> :
             l1 \in CasPairLines, l2 \in CasPairLines}

InitSpecCas ==
    IdleWalk /\ IdleParse /\ IdleDedup /\ IdleMsg /\ IdleHl7 /\ IdleTok
    /\ IdleFile /\ IdleEtl /\ IdleIngest
    /\ InitConv(CasFiles)

SpecCas == InitSpecCas /\ [][NextConv]_vars

\* what the patient owes on the line beyond deductible and copay
ImpliedCoinsurance(svc) ==
    (svc.allowed - svc.paid) - (svc.deductible + svc.copay)

\* the CAS segments of group grp written for the l-th line of output out
CasOfGroup(out, l, grp) ==
    {out[k] : k \in {q \in CasOfLine(out, l) : out[q][2] = grp}}

\* the CAS*PR*2 segments written for the l-th line
CoinsuranceCas(out, l) ==
    {seg \in CasOfGroup(out, l, "PR") : seg[3] = "2"}

\* a CAS*PR*2 segment with the implied coinsurance is written exactly when
\* that amount is positive
CoinsuranceRule(out, l, svc) ==
    CoinsuranceCas(out, l) =
        IF ImpliedCoinsurance(svc) > 0
        THEN {<<"CAS", "PR", "2", format_amount(ImpliedCoinsurance(svc))>>}
        ELSE {}

NoContractualCode(svc) ==
    CoAdjustments(svc.adj_codes, DEFAULT_CARC_MAPPING) = <<>>

\* C26 as stated: the coinsurance rule, and a line without a contractual
\* code gets a CAS*CO segment of billed - allowed whenever billed exceeds
\* allowed
C26_WriteOffWheneverBilledExceeds ==
    \A n \in 1..Len(edi_out) :
        edi_out[n] # <<>> =>
            \A l \in 1..Len(eob_files[n][1].service_lines) :
                LET svc == eob_files[n][1].service_lines[l]
                    out == edi_out[n][1]
                IN  /\ CoinsuranceRule(out, l, svc)
                    /\ (NoContractualCode(svc) /\ svc.billed > svc.allowed)
                         => \E seg \in CasOfGroup(out, l, "CO") :
                               seg[4] = format_amount(svc.billed - svc.allowed)

\* C26 corrected: the coinsurance rule, and a line without a contractual
\* code gets CAS*CO*45 of billed - allowed when billed exceeds allowed and
\* allowed is positive, else CAS*CO*45 of billed when nothing was paid and
\* billed is positive, else no CAS*CO segment
C26_WriteOffWhenAllowedPositive ==
    \A n \in 1..Len(edi_out) :
        edi_out[n] # <<>> =>
            \A l \in 1..Len(eob_files[n][1].service_lines) :
                LET svc == eob_files[n][1].service_lines[l]
                    out == edi_out[n][1]
                IN  /\ CoinsuranceRule(out, l, svc)
                    /\ NoContractualCode(svc) =>
                         CasOfGroup(out, l, "CO") =
                            IF svc.billed > svc.allowed /\ svc.allowed > 0
                            THEN {<<"CAS", "CO", "45",
                                    format_amount(svc.billed - svc.allowed)>>}
                            ELSE IF svc.paid = 0 /\ svc.billed > 0
                            THEN {<<"CAS", "CO", "45",
                                    format_amount(svc.billed)>>}
                            ELSE {}

\* a line whose only code is the PR code 2 was written with both a
\* coinsurance segment and a write-off
C26_Witness ==
    /\ Len(edi_out) = 1
    /\ edi_out[1] # <<>>
    /\ LET svc == eob_files[1][1].service_lines[1]
           out == edi_out[1][1]
       IN  /\ svc.adj_codes = <<"2">>
           /\ svc.billed = 10000 /\ svc.allowed = 2500 /\ svc.paid = 0
           /\ svc.deductible = 0 /\ svc.copay = 0
           /\ <<"CAS", "PR", "2", "25.00">> \in CoinsuranceCas(out, 1)
           /\ <<"CAS", "CO", "45", "75.00">> \in CasOfGroup(out, 1, "CO")

----------------------------------------------------------------------------
(* C30: the SE count and the control numbers of the trailers *)

\* a line with a contractual segment and a copay, a denied line without a
\* code, and a line with deductible, coinsurance and copay
TrailerLineA == BaseLine
TrailerLineB ==
    [BaseLine EXCEPT !.allowed = 0, !.copay = 0, !.paid = 0,
                     !.adj_codes = <<>>, !.adj_amount = 0]
TrailerLineC ==
    [BaseLine EXCEPT !.allowed = 10000, !.deductible = 2500, !.copay = 2500,
                     !.paid = 2500, !.adj_codes = <<"2">>,
                     !.adj_amount = 7500]

TrailerLineLists ==
    {<<>>, <<TrailerLineB>>, <<TrailerLineC, TrailerLineA, TrailerLineB>>}

\* the payee address: complete, absent, and a street without a city
TrailerAddresses ==
    {<<"1 MAIN ST", "AUSTIN">>, <<"", "AUSTIN">>, <<"1 MAIN ST", "">>}

TrailerFiles ==
    {Unreadable} \cup
    {<<[BaseEob EXCEPT !.service_lines = ls,
                       !.provider_address_line = ad[1],
                       !.provider_city = ad[2]]>> :
        ls \in TrailerLineLists, ad \in TrailerAddresses}

InitSpecTrailer ==
    IdleWalk /\ IdleParse /\ IdleDedup /\ IdleMsg /\ IdleHl7 /\ IdleTok
    /\ IdleFile /\ IdleEtl /\ IdleIngest
    /\ InitConv(SeqsUpTo(TrailerFiles, MaxEobs))

SpecTrailer == InitSpecTrailer /\ [][NextConv]_vars

\* the position of the segment with tag tag, which an interchange of
\* generate_835 holds once (ISA, GS, ST, SE, GE, IEA)
EnvelopeAt(out, tag) == CHOOSE k \in 1..Len(out) : out[k][1] = tag

\* C30: in every 835 generate_835 produced, the count of SE is the number of
\* segments from ST through SE, and SE, GE and IEA repeat the control numbers
\* of ST, GS and ISA
C30_TrailerCountsAndControls ==
    \A n \in 1..Len(edi_out) :
        edi_out[n] # <<>> =>
            LET out == edi_out[n][1]
                st == EnvelopeAt(out, "ST")
                se == EnvelopeAt(out, "SE")
            IN  /\ \A tag \in {"ISA", "GS", "ST", "SE", "GE", "IEA"} :
                      Cardinality({k \in 1..Len(out) : out[k][1] = tag}) = 1
                /\ out[se][2] = Str(se - st + 1)
                /\ out[se][3] = out[st][3]
                /\ out[EnvelopeAt(out, "GE")][3] = out[EnvelopeAt(out, "GS")][7]
                /\ out[EnvelopeAt(out, "IEA")][3]
                      = out[EnvelopeAt(out, "ISA")][14]

\* the second file of a run was written without a payee address, with three
\* service lines and with CO and PR adjustment segments
C30_Witness ==
    /\ Len(edi_out) = 2
    /\ edi_out[2] # <<>>
    /\ LET out == edi_out[2][1]
       IN  /\ Cardinality({k \in 1..Len(out) : out[k][1] = "N3"}) = 1
           /\ Cardinality({k \in 1..Len(out) : out[k][1] = "SVC"}) = 3
           /\ \E k \in 1..Len(out) : out[k][1] = "CAS" /\ out[k][2] = "CO"
           /\ \E k \in 1..Len(out) : out[k][1] = "CAS" /\ out[k][2] = "PR"
           /\ out[EnvelopeAt(out, "SE")][3] = "0002"

----------------------------------------------------------------------------
(* Inputs of parse_hl7_message: a first message and, after it, none or one *)
(* more                                                                    *)

MSHseg == <<"MSH", "|", "^~\\&", "LAB">>
PIDseg == <<"PID", "1", "", "P001">>
OBRa == <<"OBR", "1", "ORD1", "FIL1", "85025^CBC">>
OBRb == <<"OBR", "2", "ORD2", "FIL2", "80053^CMP">>
OBRshort == <<"OBR", "3">>
OBXa == <<"OBX", "1", "NM", "718-7^HGB", "", "13.5">>

FirstMessages ==
    {<<MSHseg, PIDseg>> \o body :
        body \in SeqsUpTo({OBRa, OBRb, OBRshort, OBXa}, MaxMsgSegs)}

LaterMessages ==
    {<<MSHseg>> \o body : body \in SeqsUpTo({OBRb, OBXa}, MaxMsgSegs)}

MsgFiles ==
    {<<m1>> : m1 \in FirstMessages}
    \cup {<<m1, m2>> : m1 \in FirstMessages, m2 \in LaterMessages}

InitSpecMsg ==
    IdleWalk /\ IdleParse /\ IdleDedup /\ IdleHl7 /\ IdleTok
    /\ IdleFile /\ IdleEtl /\ IdleIngest /\ IdleConv
    /\ InitMsg(MsgFiles)

SpecMsg == InitSpecMsg /\ [][NextMsg]_vars

----------------------------------------------------------------------------
(* C29: every OBX is linked to the most recent OBR of its own message *)

\* the positions of the segments named tag among the first n of message m
TagPositions(m, tag, n) ==
    {q \in 1..n : hl7_msgs[m][q] # <<>> /\ hl7_msgs[m][q][1] = tag}

\* the position of the j-th OBX of message m
NthObx(m, j) ==
    CHOOSE q \in TagPositions(m, "OBX", Len(hl7_msgs[m])) :
        Cardinality(TagPositions(m, "OBX", q)) = j

\* the observations of message m read so far: what the call returned, or
\* what the call in progress has collected
ObxListOf(m) ==
    IF m <= Len(hl7_parsed) THEN hl7_parsed[m][1].obx_list
    ELSE hl7_result.obx_list

\* the messages whose observations the state holds
MessagesRead ==
    {m \in 1..msg_idx : m <= Len(hl7_parsed) => hl7_parsed[m] # <<>>}

\* C29: each OBX carries as parent_order_code and parent_order_desc the
\* procedure code and description of the last OBR before it in its own
\* message, and carries neither field when no OBR of that message precedes
\* it, whatever the messages before held
C29_ObxLinkedToLatestObr ==
    \A m \in MessagesRead :
        \A j \in 1..Len(ObxListOf(m)) :
            LET obx == ObxListOf(m)[j]
                orders == TagPositions(m, "OBR", NthObx(m, j))
            IN  IF orders = {}
                THEN /\ "parent_order_code" \notin DOMAIN obx
                     /\ "parent_order_desc" \notin DOMAIN obx
                ELSE LET r == CHOOSE q \in orders : \A t \in orders : t <= q
                         service == get_field(hl7_msgs[m][r], 4)
                     IN  /\ obx.parent_order_code = get_component(service, 0)
                         /\ obx.parent_order_desc = get_component(service, 1)

\* two messages were parsed: the OBX of the first follows two OBR and is
\* linked to the second of them; the OBX of the second message, which has no
\* OBR, carries no parent
C29_Witness ==
    /\ pcMsg = "done"
    /\ hl7_msgs = <<<<MSHseg, PIDseg, OBRa, OBRb, OBXa>>, <<MSHseg, OBXa>>>>
    /\ hl7_parsed[1][1].obx_list[1].parent_order_code = "80053"
    /\ hl7_parsed[1][1].obx_list[1].parent_order_desc = "CMP"
    /\ DOMAIN hl7_parsed[2][1].obx_list[1] = DOMAIN parse_obx(OBXa, MsgSystem)

====
